---------------------------- MODULE Spec2Model ----------------------------
(***************************************************************************)
(* A model of the Lua bytecode tools of this repository:                   *)
(*   luaparse.py          Lua 5.4 reader, writer, code cipher, opcode      *)
(*                        comparison (class LuacParser)                    *)
(*   luaparse51/52/53.py  the instruction decoders of the older formats    *)
(*   luajitparse.py       the LuaJIT dump reader (class LuaJITParser)      *)
(*   lua_parser_unified.py  version detection and dispatch                 *)
(*                                                                         *)
(* Representation.  A file is a sequence of bytes (0..255) and a position  *)
(* is a 0-based offset, as in Python.  A 32-bit instruction word is kept   *)
(* as the tuple of its four little-endian bytes and an 8-byte integer or   *)
(* float constant as the tuple of its eight bytes: struct.unpack/pack with *)
(* '<I', '<q' and '<d' are bijections between those tuples and the Python  *)
(* values, and the numbers themselves do not fit the model checker's       *)
(* integers.  A Python "str or None" is <<>> for None and <<s>> for the    *)
(* string s, a string being its sequence of code points.                   *)
(***************************************************************************)
EXTENDS Integers, Sequences, FiniteSets, TLC

VARIABLES
    \* ---- luaparse.py: one LuacParser object and the file it is given
    file,            \* the bytes of self.filename
    phase,           \* "new" | "parsed" | "failed" | "written"
    error,           \* the exception parse() raised ("" when none)
    upval_count,     \* the local upval_count of parse()
    main_proto,      \* self.main_proto: <<>> (None) or <<proto>>
    encryption_key,  \* self.encryption_key: <<>> (None) or <<key bytes>>
    encrypt_mode,    \* self.encrypt_mode
    output,          \* the bytes _write_luac_file wrote
    parsed_proto,    \* history: main_proto as parse() left it
    calls,           \* history: the tree transforms called so far
    origin,          \* history: the complete dump the file is a prefix of
    \* ---- luaparse.py: compare_opcodes
    cmp,             \* the two instruction lists and the result of the call
    \* ---- lua_parser_unified.py: detect_lua_version and main
    disp,            \* the file given to main and what main did with it
    \* ---- luajitparse.py: LuaJITParser.parse
    jit,             \* the data given to the parser and what parse returned
    \* ---- read_instruction / decode_instruction of each format
    ins,             \* an instruction word, a format, and the decoder's result
    \* ---- one reader, writer or cipher function called on its own
    fn               \* the function, its argument, and what the call returned

vars == << file, phase, error, upval_count, main_proto, encryption_key,
           encrypt_mode, output, parsed_proto, calls, origin, cmp, disp, jit, ins,
           fn >>

luacVars == << file, phase, error, upval_count, main_proto, encryption_key,
               encrypt_mode, output, parsed_proto, calls, origin >>

-----------------------------------------------------------------------------
(* Bytes and bit fields *)

Min(a, b) == IF a < b THEN a ELSE b

Pow2(n) == 2 ^ n

\* (x >> lo) & (2^n - 1)
BitField(x, lo, n) == (x \div Pow2(lo)) % Pow2(n)

\* bitwise exclusive or of two bytes
Xor8(a, b) ==
    LET bit(i) == ((a \div Pow2(i)) + (b \div Pow2(i))) % 2
    IN  bit(0) + 2 * bit(1) + 4 * bit(2) + 8 * bit(3)
        + 16 * bit(4) + 32 * bit(5) + 64 * bit(6) + 128 * bit(7)

\* Python's  data[a:b]  for 0 <= a
Slice(s, a, b) == SubSeq(s, a + 1, Min(b, Len(s)))

\* self.file.read(n): the next n bytes, or as many as are left
FileRead(data, pos, n) == Slice(data, pos, pos + n)

\* results of the readers: ok, the exception raised, the new position, the
\* value and the raw bytes consumed
Ok(pos, val, raw) == [ok |-> TRUE, err |-> "", pos |-> pos, val |-> val, raw |-> raw]
Raise(e, pos) == [ok |-> FALSE, err |-> e, pos |-> pos, val |-> <<>>, raw |-> <<>>]

None == <<>>
Some(x) == <<x>>

-----------------------------------------------------------------------------
(* luaparse.py: constants of the format *)

LUA_SIGNATURE == <<27, 76, 117, 97>>
LUAC_VERSION == 84
LUAC_FORMAT == 0
LUAC_DATA == <<25, 147, 13, 10, 26, 10>>
\* struct.pack('<q', 0x5678) and struct.pack('<d', 370.5)
LUAC_INT == <<120, 86, 0, 0, 0, 0, 0, 0>>
LUAC_NUM == <<0, 0, 0, 0, 0, 40, 119, 64>>

VNIL == 0
VFALSE == 17
VTRUE == 33
VNUMFLT == 19
VNUMINT == 35
VSHRSTR == 20
VLNGSTR == 36
LUA_TNIL == 0
LUA_TBOOLEAN == 1
LUA_TNUMBER == 3
LUA_TSTRING == 4

\* the largest value the model's integers carry through one more 7-bit
\* group of read_size; the code's own limit, 1 << 57, lies above it
ModelSizeLimit == 16777216

-----------------------------------------------------------------------------
(* bytes.decode('utf-8', errors='replace') and str.encode('utf-8').        *)
(* An invalid start byte becomes U+FFFD, and so does the longest valid     *)
(* start of a sequence that is cut short or continued by a wrong byte.     *)

REPLACEMENT == 65533

\* the range of the second byte of a sequence, by its first byte: no
\* overlong form, no surrogate, nothing above U+10FFFF
SecondLow(b1) == IF b1 = 224 THEN 160 ELSE IF b1 = 240 THEN 144 ELSE 128
SecondHigh(b1) == IF b1 = 237 THEN 159 ELSE IF b1 = 244 THEN 143 ELSE 191

Continues(b, i) == Len(b) >= i /\ b[i] >= 128 /\ b[i] <= 191
ContinuesSecond(b) == Len(b) >= 2 /\ b[2] >= SecondLow(b[1]) /\ b[2] <= SecondHigh(b[1])

RECURSIVE Utf8Decode(_)
Utf8Decode(b) ==
    IF b = <<>> THEN <<>>
    ELSE IF b[1] < 128 THEN <<b[1]>> \o Utf8Decode(Tail(b))
    ELSE IF b[1] >= 194 /\ b[1] <= 223
    THEN IF Continues(b, 2)
         THEN <<(b[1] - 192) * 64 + (b[2] - 128)>> \o Utf8Decode(SubSeq(b, 3, Len(b)))
         ELSE <<REPLACEMENT>> \o Utf8Decode(Tail(b))
    ELSE IF b[1] >= 224 /\ b[1] <= 239
    THEN IF ~ContinuesSecond(b) THEN <<REPLACEMENT>> \o Utf8Decode(Tail(b))
         ELSE IF ~Continues(b, 3) THEN <<REPLACEMENT>> \o Utf8Decode(SubSeq(b, 3, Len(b)))
         ELSE <<(b[1] - 224) * 4096 + (b[2] - 128) * 64 + (b[3] - 128)>>
              \o Utf8Decode(SubSeq(b, 4, Len(b)))
    ELSE IF b[1] >= 240 /\ b[1] <= 244
    THEN IF ~ContinuesSecond(b) THEN <<REPLACEMENT>> \o Utf8Decode(Tail(b))
         ELSE IF ~Continues(b, 3) THEN <<REPLACEMENT>> \o Utf8Decode(SubSeq(b, 3, Len(b)))
         ELSE IF ~Continues(b, 4) THEN <<REPLACEMENT>> \o Utf8Decode(SubSeq(b, 4, Len(b)))
         ELSE <<(b[1] - 240) * 262144 + (b[2] - 128) * 4096 + (b[3] - 128) * 64
                + (b[4] - 128)>>
              \o Utf8Decode(SubSeq(b, 5, Len(b)))
    ELSE <<REPLACEMENT>> \o Utf8Decode(Tail(b))

RECURSIVE Utf8Encode(_)
Utf8Encode(s) ==
    IF s = <<>> THEN <<>>
    ELSE LET c == s[1] IN
         (IF c < 128 THEN <<c>>
          ELSE IF c < 2048 THEN <<192 + (c \div 64), 128 + (c % 64)>>
          ELSE IF c < 65536
          THEN <<224 + (c \div 4096), 128 + ((c \div 64) % 64), 128 + (c % 64)>>
          ELSE <<240 + (c \div 262144), 128 + ((c \div 4096) % 64),
                 128 + ((c \div 64) % 64), 128 + (c % 64)>>)
         \o Utf8Encode(Tail(s))

-----------------------------------------------------------------------------
(* luaparse.py: the readers *)

\* statements one after another: an exception raised by the first is raised
\* by the whole, otherwise the rest runs with the result of the first
AndThen(r, rest(_)) == IF ~r.ok THEN r ELSE rest(r)

\* read_byte_with_raw / read_byte: struct.unpack('B', file.read(1))
read_byte_with_raw(data, pos) ==
    LET raw_data == FileRead(data, pos, 1)
    IN  IF Len(raw_data) # 1 THEN Raise("struct.error", pos)
        ELSE Ok(pos + 1, raw_data[1], raw_data)

RECURSIVE read_size_loop(_, _, _, _)
read_size_loop(data, pos, x, raw_data) ==
    LET byte_data == FileRead(data, pos, 1)
    IN  IF Len(byte_data) # 1 THEN Raise("struct.error", pos)
        ELSE IF x >= ModelSizeLimit THEN Raise("beyond the model", pos + 1)
        ELSE LET b == byte_data[1]
                 x2 == x * 128 + (b % 128)
             IN  IF b >= 128 THEN Ok(pos + 1, x2, raw_data \o byte_data)
                 ELSE read_size_loop(data, pos + 1, x2, raw_data \o byte_data)

\* read_size_with_raw / read_size
read_size_with_raw(data, pos) == read_size_loop(data, pos, 0, <<>>)

\* read_integer_with_raw, read_number_with_raw: struct.unpack of file.read(8)
read_8_with_raw(data, pos) ==
    LET raw_data == FileRead(data, pos, 8)
    IN  IF Len(raw_data) # 8 THEN Raise("struct.error", pos)
        ELSE Ok(pos + 8, raw_data, raw_data)

\* read_string_with_raw: the payload is file.read(size) as it comes
read_string_with_raw(data, pos) ==
    AndThen(read_size_with_raw(data, pos), LAMBDA sz :
        IF sz.val = 0 THEN Ok(sz.pos, None, sz.raw)
        ELSE LET string_data == FileRead(data, sz.pos, sz.val - 1)
             IN  Ok(sz.pos + Len(string_data), Some(Utf8Decode(string_data)),
                    sz.raw \o string_data))

\* check_header: the signature and the version are compared, the format
\* byte, the six data bytes, the three sizes and the two test values read
check_header(data) ==
    IF FileRead(data, 0, 4) # LUA_SIGNATURE
    THEN Raise("ValueError: signature", Len(FileRead(data, 0, 4)))
    ELSE
    AndThen(read_byte_with_raw(data, 4), LAMBDA version :
        IF version.val # LUAC_VERSION THEN Raise("ValueError: version", version.pos)
        ELSE
    AndThen(read_byte_with_raw(data, version.pos), LAMBDA format_byte :
    AndThen(read_byte_with_raw(data, format_byte.pos
                                     + Len(FileRead(data, format_byte.pos, 6))),
            LAMBDA inst_size :
    AndThen(read_byte_with_raw(data, inst_size.pos), LAMBDA int_size :
    AndThen(read_byte_with_raw(data, int_size.pos), LAMBDA num_size :
    AndThen(read_8_with_raw(data, num_size.pos), LAMBDA test_int :
    AndThen(read_8_with_raw(data, test_int.pos), LAMBDA test_num :
        Ok(test_num.pos, <<>>, Slice(data, 0, test_num.pos)))))))))

\* for i in range(n): one element after another, the first failure raised;
\* the value is the list of the elements, raw the bytes they were read from
RECURSIVE read_n(_, _, _, _, _, _)
read_n(Elem(_, _), data, pos, n, acc, raw) ==
    IF n = 0 THEN Ok(pos, acc, raw)
    ELSE AndThen(Elem(data, pos), LAMBDA e :
            read_n(Elem, data, e.pos, n - 1, Append(acc, e.val), raw \o e.raw))

\* a size, then that many elements
read_counted(Elem(_, _), data, pos) ==
    AndThen(read_size_with_raw(data, pos), LAMBDA n :
        read_n(Elem, data, n.pos, n.val, <<>>, n.raw))

\* one instruction of read_code: struct.unpack('<I', file.read(4))
read_inst(data, pos) ==
    LET inst_raw == FileRead(data, pos, 4)
    IN  IF Len(inst_raw) # 4 THEN Raise("struct.error", pos)
        ELSE Ok(pos + 4, inst_raw, inst_raw)

read_code(data, pos) == read_counted(read_inst, data, pos)

\* a constant as Python holds it
KNil == [t |-> "None", v |-> <<>>]
KBool(b) == [t |-> "bool", v |-> <<b>>]
KFloat(bits) == [t |-> "float", v |-> bits]
KInt(bits) == [t |-> "int", v |-> bits]
KStr(s) == [t |-> "str", v |-> s]

\* the three payloads of read_constants, after the tag byte tr
read_constant_float(data, tr) ==
    AndThen(read_8_with_raw(data, tr.pos), LAMBDA num :
        Ok(num.pos, KFloat(num.val), tr.raw \o num.raw))

read_constant_int(data, tr) ==
    AndThen(read_8_with_raw(data, tr.pos), LAMBDA num :
        Ok(num.pos, KInt(num.val), tr.raw \o num.raw))

read_constant_string(data, tr) ==
    AndThen(read_string_with_raw(data, tr.pos), LAMBDA str :
        Ok(str.pos, IF str.val = None THEN KNil ELSE KStr(str.val[1]),
           tr.raw \o str.raw))

\* one constant of read_constants: the tags of LuaType first, then the
\* base type t & 0x0F with the variant (t >> 4) & 0x0F
read_constant_tagged(data, tr, t) ==
    CASE t = VNIL -> Ok(tr.pos, KNil, tr.raw)
      [] t = VFALSE -> Ok(tr.pos, KBool(FALSE), tr.raw)
      [] t = VTRUE -> Ok(tr.pos, KBool(TRUE), tr.raw)
      [] t = VNUMFLT -> read_constant_float(data, tr)
      [] t = VNUMINT -> read_constant_int(data, tr)
      [] t \in {VSHRSTR, VLNGSTR} -> read_constant_string(data, tr)
      [] OTHER ->
            CASE t % 16 = LUA_TNIL -> Ok(tr.pos, KNil, tr.raw)
              [] t % 16 = LUA_TBOOLEAN -> Ok(tr.pos, KBool((t \div 16) % 16 # 0), tr.raw)
              [] t % 16 = LUA_TNUMBER ->
                    IF (t \div 16) % 16 = 0 THEN read_constant_float(data, tr)
                    ELSE read_constant_int(data, tr)
              [] t % 16 = LUA_TSTRING -> read_constant_string(data, tr)
              [] OTHER -> Raise("ValueError: constant type", tr.pos)

read_constant(data, pos) ==
    AndThen(read_byte_with_raw(data, pos), LAMBDA tr :
        read_constant_tagged(data, tr, tr.val))

read_constants(data, pos) == read_counted(read_constant, data, pos)

\* one upvalue of read_upvalues
read_upvalue(data, pos) ==
    AndThen(read_byte_with_raw(data, pos), LAMBDA instack :
    AndThen(read_byte_with_raw(data, instack.pos), LAMBDA idx :
    AndThen(read_byte_with_raw(data, idx.pos), LAMBDA kind :
        Ok(kind.pos,
           [instack |-> instack.val, idx |-> idx.val, kind |-> kind.val,
            ori |-> instack.raw \o idx.raw \o kind.raw],
           instack.raw \o idx.raw \o kind.raw))))

read_upvalues(data, pos) == read_counted(read_upvalue, data, pos)

\* the elements of read_debug
read_absline(data, pos) ==
    AndThen(read_size_with_raw(data, pos), LAMBDA pc :
    AndThen(read_size_with_raw(data, pc.pos), LAMBDA line :
        Ok(line.pos, [pc |-> pc.val, line |-> line.val, ori |-> pc.raw \o line.raw],
           pc.raw \o line.raw)))

read_locvar(data, pos) ==
    AndThen(read_string_with_raw(data, pos), LAMBDA varname :
    AndThen(read_size_with_raw(data, varname.pos), LAMBDA startpc :
    AndThen(read_size_with_raw(data, startpc.pos), LAMBDA endpc :
        Ok(endpc.pos,
           [varname |-> varname.val, startpc |-> startpc.val, endpc |-> endpc.val,
            ori |-> varname.raw \o startpc.raw \o endpc.raw],
           varname.raw \o startpc.raw \o endpc.raw))))

\* the end of read_debug: the bytes of the four lists together are cut in
\* four quarters, kept as the raw data of the four lists
debug_quarters(pos, lineinfo, abslineinfo, locvars, upvalue_names, debug_raw) ==
    Ok(pos,
       [lineinfo |-> lineinfo, abslineinfo |-> abslineinfo, locvars |-> locvars,
        upvalue_names |-> upvalue_names,
        ori_lineinfo |-> Slice(debug_raw, 0, Len(debug_raw) \div 4),
        ori_abslineinfo |-> Slice(debug_raw, Len(debug_raw) \div 4,
                                  Len(debug_raw) \div 2),
        ori_locvars |-> Slice(debug_raw, Len(debug_raw) \div 2,
                              (3 * Len(debug_raw)) \div 4),
        ori_upvalue_names |-> Slice(debug_raw, (3 * Len(debug_raw)) \div 4,
                                    Len(debug_raw))],
       debug_raw)

\* read_debug: line info, absolute line info, local variables, upvalue names
read_debug(data, pos) ==
    AndThen(read_counted(read_byte_with_raw, data, pos), LAMBDA lineinfo :
    AndThen(read_counted(read_absline, data, lineinfo.pos), LAMBDA abslineinfo :
    AndThen(read_counted(read_locvar, data, abslineinfo.pos), LAMBDA locvars :
    AndThen(read_counted(read_string_with_raw, data, locvars.pos), LAMBDA upvalue_names :
        debug_quarters(upvalue_names.pos, lineinfo.val, abslineinfo.val, locvars.val,
                       upvalue_names.val,
                       lineinfo.raw \o abslineinfo.raw \o locvars.raw
                       \o upvalue_names.raw)))))

\* an absent source left empty
resolve_source_none(source, parent_source) ==
    IF source = None THEN <<>> ELSE source[1]

\* proto.source after  if proto.source is None: proto.source = parent_source
resolve_source(source, parent_source) ==
    IF source = None THEN parent_source ELSE source[1]

RECURSIVE read_proto(_, _, _)
RECURSIVE read_protos_loop(_, _, _, _, _)

\* the loop of read_protos: each child is read with the parent's source as
\* its parent_source
read_protos_loop(data, pos, n, source, acc) ==
    IF n = 0 THEN Ok(pos, acc, <<>>)
    ELSE AndThen(read_proto(data, pos, source), LAMBDA subproto :
            read_protos_loop(data, subproto.pos, n - 1, source,
                             Append(acc, subproto.val)))

\* read_protos: protos_raw is the bytes of the count
read_protos(data, pos, source) ==
    AndThen(read_size_with_raw(data, pos), LAMBDA n :
    AndThen(read_protos_loop(data, n.pos, n.val, source, <<>>), LAMBDA l :
        Ok(l.pos, l.val, n.raw)))

\* read_proto with _record_raw_data set
read_proto(data, pos, parent_source) ==
    AndThen(read_string_with_raw(data, pos), LAMBDA source :
    AndThen(read_size_with_raw(data, source.pos), LAMBDA linedefined :
    AndThen(read_size_with_raw(data, linedefined.pos), LAMBDA lastlinedefined :
    AndThen(read_byte_with_raw(data, lastlinedefined.pos), LAMBDA numparams :
    AndThen(read_byte_with_raw(data, numparams.pos), LAMBDA is_vararg :
    AndThen(read_byte_with_raw(data, is_vararg.pos), LAMBDA maxstacksize :
    AndThen(read_code(data, maxstacksize.pos), LAMBDA code :
    AndThen(read_constants(data, code.pos), LAMBDA constants :
    AndThen(read_upvalues(data, constants.pos), LAMBDA upvalues :
    AndThen(read_protos(data, upvalues.pos,
                        resolve_source(source.val, parent_source)), LAMBDA protos :
    AndThen(read_debug(data, protos.pos), LAMBDA debug :
        Ok(debug.pos,
           [source |-> resolve_source(source.val, parent_source),
            linedefined |-> linedefined.val,
            lastlinedefined |-> lastlinedefined.val,
            numparams |-> numparams.val,
            is_vararg |-> is_vararg.val,
            maxstacksize |-> maxstacksize.val,
            code |-> code.val,
            constants |-> constants.val,
            upvalues |-> upvalues.val,
            protos |-> protos.val,
            lineinfo |-> debug.val.lineinfo,
            abslineinfo |-> debug.val.abslineinfo,
            locvars |-> debug.val.locvars,
            upvalue_names |-> debug.val.upvalue_names,
            ori |-> [source |-> source.raw,
                     linedefined |-> linedefined.raw,
                     lastlinedefined |-> lastlinedefined.raw,
                     numparams |-> numparams.raw,
                     is_vararg |-> is_vararg.raw,
                     maxstacksize |-> maxstacksize.raw,
                     code |-> code.raw,
                     constants |-> constants.raw,
                     upvalues |-> upvalues.raw,
                     protos |-> protos.raw,
                     lineinfo |-> debug.val.ori_lineinfo,
                     abslineinfo |-> debug.val.ori_abslineinfo,
                     locvars |-> debug.val.ori_locvars,
                     upvalue_names |-> debug.val.ori_upvalue_names]],
           Slice(data, pos, debug.pos)))))))))))))

\* parse: the header, the upvalue count byte, the main prototype
parse(data) ==
    AndThen(check_header(data), LAMBDA h :
    AndThen(read_byte_with_raw(data, h.pos), LAMBDA upval_count_read :
    AndThen(read_proto(data, upval_count_read.pos, <<>>), LAMBDA p :
        Ok(p.pos, [upval_count |-> upval_count_read.val, main_proto |-> p.val],
           Slice(data, 0, p.pos)))))

-----------------------------------------------------------------------------
(* luaparse.py: the writer *)

\* concatenation of the writes of one loop
RECURSIVE write_each(_, _)
write_each(W(_), s) == IF s = <<>> THEN <<>> ELSE W(s[1]) \o write_each(W, Tail(s))

\* the groups of _write_size: value & 0x7F, value >>= 7, while value > 0,
\* reversed
RECURSIVE size_groups(_)
size_groups(value) ==
    IF value = 0 THEN <<>> ELSE Append(size_groups(value \div 128), value % 128)

\* _write_size: the last group carries the high bit
_write_size(value) ==
    IF value = 0 THEN <<128>>
    ELSE LET bytes_list == size_groups(value)
             n == Len(bytes_list)
         IN  [i \in 1..n |-> IF i = n THEN bytes_list[i] + 128 ELSE bytes_list[i]]

\* _write_string
_write_string(s) ==
    IF s = None THEN _write_size(0)
    ELSE LET data == Utf8Encode(s[1])
         IN  _write_size(Len(data) + 1) \o data

\* _write_header
_write_header ==
    LUA_SIGNATURE \o <<LUAC_VERSION>> \o <<LUAC_FORMAT>> \o LUAC_DATA
    \o <<4>> \o <<8>> \o <<8>> \o LUAC_INT \o LUAC_NUM

\* one constant of _write_constants
_write_constant(const) ==
    IF const.t = "None" THEN <<VNIL>>
    ELSE IF const.t = "bool" THEN (IF const.v[1] THEN <<VTRUE>> ELSE <<VFALSE>>)
    ELSE IF const.t = "float" THEN <<VNUMFLT>> \o const.v
    ELSE IF const.t = "int" THEN <<VNUMINT>> \o const.v
    ELSE (IF Len(const.v) <= 40 THEN <<VSHRSTR>> ELSE <<VLNGSTR>>)
         \o _write_string(Some(const.v))

_write_constants(proto) ==
    _write_size(Len(proto.constants)) \o write_each(_write_constant, proto.constants)

_write_upvalue(upval) == <<upval.instack, upval.idx, upval.kind>>

_write_upvalues(proto) ==
    _write_size(Len(proto.upvalues)) \o write_each(_write_upvalue, proto.upvalues)

_write_absline(absline) == _write_size(absline.pc) \o _write_size(absline.line)

_write_locvar(locvar) ==
    _write_string(locvar.varname) \o _write_size(locvar.startpc)
    \o _write_size(locvar.endpc)

\* a line written as the line after it
_write_lineinfo_next(line) == <<(line + 1) % 256>>

_write_lineinfo(line) == <<line>>

_write_debug(proto) ==
    _write_size(Len(proto.lineinfo)) \o write_each(_write_lineinfo, proto.lineinfo)
    \o _write_size(Len(proto.abslineinfo)) \o write_each(_write_absline, proto.abslineinfo)
    \o _write_size(Len(proto.locvars)) \o write_each(_write_locvar, proto.locvars)
    \o _write_size(Len(proto.upvalue_names))
    \o write_each(_write_string, proto.upvalue_names)

\* the source of _write_proto: a child whose raw source is one byte long or
\* less is written as the absent string
_write_source(proto, is_main_proto) ==
    IF is_main_proto THEN _write_string(Some(proto.source))
    ELSE IF Len(proto.ori.source) <= 1 THEN _write_string(None)
    ELSE _write_string(Some(proto.source))

\* _write_proto and the loop of _write_protos; the code is written from
\* proto.ori['code'], which every parsed prototype has
RECURSIVE _write_proto(_, _)
RECURSIVE _write_protos_loop(_)
_write_protos_loop(protos) ==
    IF protos = <<>> THEN <<>>
    ELSE _write_proto(protos[1], FALSE) \o _write_protos_loop(Tail(protos))

_write_protos(proto) == _write_size(Len(proto.protos)) \o _write_protos_loop(proto.protos)

_write_proto(proto, is_main_proto) ==
    _write_source(proto, is_main_proto)
    \o _write_size(proto.linedefined)
    \o _write_size(proto.lastlinedefined)
    \o <<proto.numparams>> \o <<proto.is_vararg>> \o <<proto.maxstacksize>>
    \o proto.ori.code
    \o _write_constants(proto)
    \o _write_upvalues(proto)
    \o _write_protos(proto)
    \o _write_debug(proto)

\* _write_luac_file
_write_luac_file(proto) ==
    _write_header \o <<Len(proto.upvalues)>> \o _write_proto(proto, TRUE)

-----------------------------------------------------------------------------
(* luaparse.py: the code cipher *)

\* for byte_idx in range(4): the bytes of one instruction, each xor the key
\* byte at (inst_idx + byte_idx) % key_len, to the end of the data at most;
\* key_index gives the index into the key
RECURSIVE xor_instruction(_, _, _, _, _, _)
xor_instruction(key_index(_, _), key, code_data, inst_idx, byte_idx, acc) ==
    IF byte_idx >= 4 \/ inst_idx + byte_idx >= Len(code_data) THEN acc
    ELSE xor_instruction(key_index, key, code_data, inst_idx, byte_idx + 1,
            Append(acc, Xor8(code_data[inst_idx + byte_idx + 1],
                             key[(key_index(inst_idx, byte_idx) % Len(key)) + 1])))

\* for inst_idx in range(0, len(code_data), 4)
RECURSIVE xor_instructions(_, _, _, _, _)
xor_instructions(key_index(_, _), key, code_data, inst_idx, acc) ==
    IF inst_idx >= Len(code_data) THEN acc
    ELSE xor_instructions(key_index, key, code_data, inst_idx + 4,
            xor_instruction(key_index, key, code_data, inst_idx, 0, acc))

\* the loops with the key taken from its start in every instruction
xor_with_key_per_instruction(key, code_data) ==
    xor_instructions(LAMBDA inst_idx, byte_idx : byte_idx, key, code_data, 0, <<>>)

\* the bytes of the two code transforms: the loops of encrypt_code_data and
\* of decrypt_code_data, which have the same body
xor_with_key(key, code_data) ==
    xor_instructions(LAMBDA inst_idx, byte_idx : inst_idx + byte_idx, key, code_data, 0, <<>>)

\* encrypt_code_data adding the key byte to the data byte instead of the xor
encrypt_code_data_adding(key, code_data) ==
    IF key = None \/ Len(key[1]) = 0
    THEN Raise("ValueError: key", 0)
    ELSE Ok(0, [i \in 1..Len(code_data) |->
                    (code_data[i] + key[1][((i - 1) % Len(key[1])) + 1]) % 256], <<>>)

\* encrypt_code_data under self.encryption_key
encrypt_code_data(key, code_data) ==
    IF key = None \/ Len(key[1]) = 0
    THEN Raise("ValueError: key", 0)
    ELSE Ok(0, xor_with_key(key[1], code_data), <<>>)

\* decrypt_code_data with the first byte of every instruction one more after
\* the xor
decrypt_code_data_adjusted(key, encrypted_data) ==
    IF key = None \/ Len(key[1]) = 0
    THEN Raise("ValueError: key", 0)
    ELSE Ok(0, [i \in 1..Len(encrypted_data) |->
                    IF (i - 1) % 4 = 0
                    THEN (xor_with_key(key[1], encrypted_data)[i] + 1) % 256
                    ELSE xor_with_key(key[1], encrypted_data)[i]], <<>>)

\* decrypt_code_data: the same loops with the same body
decrypt_code_data(key, encrypted_data) ==
    IF key = None \/ Len(key[1]) = 0
    THEN Raise("ValueError: key", 0)
    ELSE Ok(0, xor_with_key(key[1], encrypted_data), <<>>)

\* no size prefix taken off: the whole of code_raw is the code data
size_prefix_len_none(code_raw, temp_pos) == temp_pos

\* the while loop of encrypt_proto_code: the length of the size prefix of
\* code_raw, up to and including the first byte with the high bit set
RECURSIVE size_prefix_len(_, _)
size_prefix_len(code_raw, temp_pos) ==
    IF temp_pos < Len(code_raw)
    THEN IF code_raw[temp_pos + 1] >= 128 THEN temp_pos + 1
         ELSE size_prefix_len(code_raw, temp_pos + 1)
    ELSE temp_pos

\* the guard of encrypt_proto_code and decrypt_proto_code:
\*   if not self.encrypt_mode or not self.encryption_key: return
KeyUsable(mode, key) == mode /\ key # None /\ key[1] # <<>>

\* code_raw[temp_pos:] and size_bytes of the two transforms
actual_code_data(code_raw) == Slice(code_raw, size_prefix_len(code_raw, 0), Len(code_raw))
size_bytes(code_raw) == Slice(code_raw, 0, size_prefix_len(code_raw, 0))

\* encrypt_proto_code(proto) under the object's encrypt_mode and key: the
\* size prefix of ori['code'] is kept, the rest encrypted, then the children.
\* The value is the tree as the call leaves it.
RECURSIVE encrypt_proto_code(_, _, _)
RECURSIVE encrypt_protos_loop(_, _, _, _)
encrypt_protos_loop(mode, key, protos, acc) ==
    IF protos = <<>> THEN Ok(0, acc, <<>>)
    ELSE AndThen(encrypt_proto_code(mode, key, protos[1]), LAMBDA sub_proto :
            encrypt_protos_loop(mode, key, Tail(protos), Append(acc, sub_proto.val)))

encrypt_proto_code(mode, key, proto) ==
    IF ~KeyUsable(mode, key) THEN Ok(0, proto, <<>>)
    ELSE
    AndThen(encrypt_code_data(key, actual_code_data(proto.ori.code)),
            LAMBDA encrypted_code :
    AndThen(encrypt_protos_loop(mode, key, proto.protos, <<>>), LAMBDA protos :
        Ok(0, [proto EXCEPT
                 !.ori = [proto.ori EXCEPT
                            !.code = size_bytes(proto.ori.code) \o encrypted_code.val],
                 !.protos = protos.val], <<>>)))

\* decrypt_proto_code(proto)
RECURSIVE decrypt_proto_code(_, _, _)
RECURSIVE decrypt_protos_loop(_, _, _, _)
decrypt_protos_loop(mode, key, protos, acc) ==
    IF protos = <<>> THEN Ok(0, acc, <<>>)
    ELSE AndThen(decrypt_proto_code(mode, key, protos[1]), LAMBDA sub_proto :
            decrypt_protos_loop(mode, key, Tail(protos), Append(acc, sub_proto.val)))

decrypt_proto_code(mode, key, proto) ==
    IF ~KeyUsable(mode, key) THEN Ok(0, proto, <<>>)
    ELSE
    AndThen(decrypt_code_data(key, actual_code_data(proto.ori.code)),
            LAMBDA decrypted_code :
    AndThen(decrypt_protos_loop(mode, key, proto.protos, <<>>), LAMBDA protos :
        Ok(0, [proto EXCEPT
                 !.ori = [proto.ori EXCEPT
                            !.code = size_bytes(proto.ori.code) \o decrypted_code.val],
                 !.protos = protos.val], <<>>)))

-----------------------------------------------------------------------------
(* The Lua 5.4 files given to the parser.  They are written out byte by    *)
(* byte, not with the writer above.                                        *)

MaxCode == 2       \* instructions of a prototype
MaxConst == 1      \* constants of a prototype
MaxKids == 2       \* children of a prototype
MaxCalls == 2      \* tree transforms called on one parsed tree

SeqsUpTo(S, n) == UNION {[1..k -> S] : k \in 0..n}

RECURSIVE Flatten(_)
Flatten(ss) == IF ss = <<>> THEN <<>> ELSE ss[1] \o Flatten(Tail(ss))

\* a size below 128 in its one-byte form, and with a leading zero group
Sz(n) == <<128 + n>>
SzLong(n) == <<0, 128 + n>>

GenHeader(signature, version, format) ==
    signature \o <<version, format>> \o LUAC_DATA \o <<4, 8, 8>> \o LUAC_INT \o LUAC_NUM

GenProto(src, line, code, ks, ups, kids, dbg) ==
    src \o line \o line \o <<0, 1, 2>>
    \o Sz(Len(code)) \o Flatten(code)
    \o Sz(Len(ks)) \o Flatten(ks)
    \o Sz(Len(ups)) \o Flatten(ups)
    \o Sz(Len(kids)) \o Flatten(kids)
    \o dbg

GenFile(header, nup, proto) == header \o <<nup>> \o proto

StdHeader == GenHeader(LUA_SIGNATURE, LUAC_VERSION, LUAC_FORMAT)

SrcAbsent == <<128>>
SrcEmpty == <<129>>
SrcNamed == <<130, 64>>
SrcChoices == {SrcAbsent, SrcEmpty, SrcNamed}

InstrChoices == {<<81, 0, 0, 0>>, <<198, 128, 0, 1>>}
CodeChoices == SeqsUpTo(InstrChoices, MaxCode)

EightBytes == <<1, 0, 0, 0, 0, 0, 240, 191>>

\* constants in the tags of LuaType, strings no longer than 40 shown short
ConstCanonical ==
    { <<VNIL>>, <<VFALSE>>, <<VTRUE>>, <<VNUMFLT>> \o EightBytes,
      <<VNUMINT>> \o EightBytes, <<VSHRSTR, 130, 97>>, <<VSHRSTR, 131, 195, 169>> }
\* a string that is not UTF-8, other tags the reader takes, an absent
\* string, a short string tagged long, and tags the reader refuses
ConstOther ==
    { <<VSHRSTR, 130, 255>>, <<1>>, <<16>>, <<3>> \o EightBytes, <<4, 130, 97>>,
      <<VSHRSTR, 128>>, <<VLNGSTR, 130, 97>>, <<5>>, <<22>> }
ConstChoices == ConstCanonical \cup ConstOther

Upvalue1 == <<1, 0, 0>>

DbgEmpty == <<128, 128, 128, 128>>
\* one line, one absolute line, one local "x", one upvalue name "e"
DbgFull == <<129, 1>> \o <<129, 128, 129>> \o <<129, 130, 120, 128, 129>>
           \o <<129, 130, 101>>
\* the same with the absolute line's pc in two groups
DbgLong == <<129, 1>> \o <<129, 0, 128, 129>> \o <<129, 130, 120, 128, 129>>
           \o <<129, 130, 101>>

Line0 == <<128>>

\* children: a leaf, or a prototype with one absent-source leaf below it
GenLeaf(src, code) == GenProto(src, Line0, code, <<>>, <<>>, <<>>, DbgEmpty)
ChildChoices(srcs) ==
    { GenLeaf(src, <<<<81, 0, 0, 0>>>>) : src \in srcs }
    \cup { GenProto(src, Line0, <<<<198, 128, 0, 1>>>>, <<>>, <<>>,
                    <<GenLeaf(SrcAbsent, <<<<81, 0, 0, 0>>, <<198, 128, 0, 1>>>>)>>,
                    DbgEmpty) : src \in srcs }

\* files as a Lua 5.4 dump holds them: the standard header, the count byte
\* equal to the number of upvalues of the main prototype, one-byte sizes,
\* constants in the tags of LuaType, children without a source of their own
ConstFiles(consts) ==
    { GenFile(StdHeader, 0, GenProto(SrcNamed, Line0, <<<<81, 0, 0, 0>>>>, ks,
                                     <<>>, <<>>, DbgEmpty))
        : ks \in SeqsUpTo(consts, MaxConst) }
TreeFiles(rootsrcs, kidsrcs) ==
    { GenFile(StdHeader, 0, GenProto(src, Line0, <<>>, <<>>, <<>>, kids, DbgEmpty))
        : src \in rootsrcs, kids \in SeqsUpTo(ChildChoices(kidsrcs), MaxKids) }
CodeFiles ==
    { GenFile(StdHeader, 1, GenProto(SrcNamed, Line0, code, <<>>, <<Upvalue1>>,
                                     <<>>, dbg))
        : code \in CodeChoices, dbg \in {DbgEmpty, DbgFull} }

CanonicalFiles ==
    ConstFiles(ConstCanonical) \cup TreeFiles({SrcAbsent, SrcNamed}, {SrcAbsent})
    \cup CodeFiles

\* files the reader is also given: other constants, children with a source
\* of their own, a child whose absent source is a size in two groups, sizes
\* in two groups, a count byte that differs, other
\* format bytes, signatures and versions
OtherFiles ==
    ConstFiles(ConstChoices) \cup TreeFiles(SrcChoices, SrcChoices)
    \cup { GenFile(StdHeader, 0,
                   GenProto(SrcNamed, Line0, <<>>, <<>>, <<>>,
                            <<GenLeaf(SzLong(0), <<<<81, 0, 0, 0>>>>)>>, DbgEmpty)) }
    \cup { GenFile(GenHeader(sig, ver, fmt), nup,
                   GenProto(SrcNamed, line, <<>>, <<>>, <<>>, <<>>, dbg))
            : sig \in {LUA_SIGNATURE, <<27, 76, 74, 2>>}, ver \in {LUAC_VERSION, 83},
              fmt \in {LUAC_FORMAT, 1}, nup \in {0, 1},
              line \in {Line0, SzLong(3)}, dbg \in {DbgEmpty, DbgLong} }

FullFiles == CanonicalFiles \cup OtherFiles

\* the dumps that are also given cut short, at every length
CutFiles ==
    { GenFile(StdHeader, 1,
              GenProto(SrcNamed, Line0, <<<<81, 0, 0, 0>>>>,
                       <<<<VSHRSTR, 130, 97>>, <<VNUMINT>> \o EightBytes>>,
                       <<Upvalue1>>, <<GenLeaf(SrcAbsent, <<<<198, 128, 0, 1>>>>)>>,
                       DbgFull)) }

-----------------------------------------------------------------------------
(* luaparse.py: a LuacParser object *)

NoCmp == [pc |-> "off"]
NoDisp == [pc |-> "off"]
NoJit == [pc |-> "off"]
NoIns == [pc |-> "off"]
NoFn == [pc |-> "off"]

InitLuac(files, cuts) ==
    /\ \/ \E f \in files : origin = f /\ file = f
       \/ \E f \in cuts : \E n \in 0..(Len(f) - 1) : origin = f /\ file = Slice(f, 0, n)
    /\ phase = "new"
    /\ error = ""
    /\ upval_count = 0
    /\ main_proto = None
    /\ encryption_key = None
    /\ encrypt_mode = FALSE
    /\ output = <<>>
    /\ parsed_proto = None
    /\ calls = <<>>

\* LuacParser(filename).parse(): on an exception the object keeps what it
\* had
Parsed(r) ==
    IF r.ok
    THEN /\ phase' = "parsed"
         /\ upval_count' = r.val.upval_count
         /\ main_proto' = Some(r.val.main_proto)
         /\ parsed_proto' = Some(r.val.main_proto)
         /\ error' = error
    ELSE /\ phase' = "failed"
         /\ error' = r.err
         /\ UNCHANGED << upval_count, main_proto, parsed_proto >>

Parse ==
    /\ phase = "new"
    /\ LET r == parse(file) IN Parsed(r)
    /\ UNCHANGED << file, encryption_key, encrypt_mode, output, calls, origin,
                    cmp, disp, jit, ins, fn >>

\* with open(output, 'wb') as output_file: self._write_luac_file(output_file)
WriteLuacFile ==
    /\ phase = "parsed"
    /\ output' = _write_luac_file(main_proto[1])
    /\ phase' = "written"
    /\ UNCHANGED << file, error, upval_count, main_proto, encryption_key,
                    encrypt_mode, parsed_proto, calls, origin, cmp, disp, jit, ins, fn >>

Init ==
    /\ InitLuac(FullFiles, CutFiles)
    /\ cmp = NoCmp /\ disp = NoDisp /\ jit = NoJit /\ ins = NoIns /\ fn = NoFn

Next == Parse \/ WriteLuacFile

Spec == Init /\ [][Next]_vars

-----------------------------------------------------------------------------
(* Properties of parse and _write_luac_file *)

\* C1: round-trip law.  For every well-formed file that parse accepts, the
\* bytes _write_luac_file writes from the parsed, untransformed tree are the
\* bytes of the file.
RoundTripLaw ==
    (phase = "written" /\ calls = <<>> /\ file = origin /\ file \in CanonicalFiles)
        => output = file

\* C5: a short read is fatal.  A file that is a complete dump cut short is
\* never parsed: some read finds fewer bytes than it asks for, and parse
\* fails.
ShortReadIsFatal ==
    Len(file) < Len(origin) => phase \notin {"parsed", "written"}

-----------------------------------------------------------------------------
(* luaparse.py: the tree transforms on a parsed tree *)

\* the keys given to set_encryption_key: the empty key, one byte, "ab", and
\* a key of five bytes
KeyChoices == { <<>>, <<255>>, <<97, 98>>, <<1, 2, 3, 4, 5>> }

\* Scenario 2 of the specification: a root of three instructions with a
\* child of two
Scenario2File ==
    GenFile(StdHeader, 0,
            GenProto(SrcNamed, Line0,
                     << <<81, 0, 0, 0>>, <<3, 0, 0, 0>>, <<198, 128, 0, 1>> >>,
                     <<>>, <<>>,
                     <<GenLeaf(SrcAbsent, << <<11, 0, 0, 0>>, <<71, 0, 128, 0>> >>)>>,
                     DbgEmpty))

CipherFiles ==
    { Scenario2File }
    \cup { GenFile(StdHeader, 0, GenProto(SrcNamed, Line0, code, <<>>, <<>>, <<>>, DbgEmpty))
            : code \in CodeChoices }

\* set_encryption_key(key)
SetEncryptionKey ==
    /\ phase = "parsed"
    /\ \E key \in KeyChoices :
          /\ encryption_key' = Some(key)
          /\ encrypt_mode' = TRUE
    /\ UNCHANGED << file, phase, error, upval_count, main_proto, output,
                    parsed_proto, calls, origin, cmp, disp, jit, ins, fn >>

\* what the history keeps of one call: the transform, the key state it ran
\* under, the tree it was given, and whether it raised
Call(op, r) ==
    [op |-> op, key |-> encryption_key, mode |-> encrypt_mode,
     before |-> main_proto[1], raised |-> ~r.ok]

\* the object after a call: a call that raises does so in encrypt_code_data
\* or decrypt_code_data at the root, before any assignment to the tree
Transformed(op, r) ==
    /\ main_proto' = IF r.ok THEN Some(r.val) ELSE main_proto
    /\ calls' = Append(calls, Call(op, r))

\* self.encrypt_proto_code(self.main_proto)
EncryptProtoCode ==
    /\ phase = "parsed"
    /\ Len(calls) < MaxCalls
    /\ LET r == encrypt_proto_code(encrypt_mode, encryption_key, main_proto[1])
       IN  Transformed("encrypt", r)
    /\ UNCHANGED << file, phase, error, upval_count, encryption_key, encrypt_mode,
                    output, parsed_proto, origin, cmp, disp, jit, ins, fn >>

\* self.decrypt_proto_code(self.main_proto)
DecryptProtoCode ==
    /\ phase = "parsed"
    /\ Len(calls) < MaxCalls
    /\ LET r == decrypt_proto_code(encrypt_mode, encryption_key, main_proto[1])
       IN  Transformed("decrypt", r)
    /\ UNCHANGED << file, phase, error, upval_count, encryption_key, encrypt_mode,
                    output, parsed_proto, origin, cmp, disp, jit, ins, fn >>

InitCipher ==
    /\ InitLuac(CipherFiles, {})
    /\ cmp = NoCmp /\ disp = NoDisp /\ jit = NoJit /\ ins = NoIns /\ fn = NoFn

NextCipher ==
    Parse \/ SetEncryptionKey \/ EncryptProtoCode \/ DecryptProtoCode \/ WriteLuacFile

SpecCipher == InitCipher /\ [][NextCipher]_vars

-----------------------------------------------------------------------------
(* Properties of the tree transforms *)

\* the captured instruction-stream spans of a tree, the node before its
\* children, the children in order
RECURSIVE Spans(_)
Spans(proto) ==
    <<proto.ori.code>> \o Flatten([i \in 1..Len(proto.protos) |-> Spans(proto.protos[i])])

\* the tree after call i of the history
TreeAfterCall(i) == IF i = Len(calls) THEN main_proto[1] ELSE calls[i + 1].before

MissingKeyIsAnError ==
    \A i \in 1..Len(calls) :
        ~KeyUsable(calls[i].mode, calls[i].key) => calls[i].raised

\* byte i of a payload xor byte i mod len(key) of the key, from i = 0
PayloadUnderKey(payload, key) ==
    [i \in 1..Len(payload) |-> Xor8(payload[i], key[((i - 1) % Len(key)) + 1])]

\* the size prefix of a node's instruction-stream span: what is before the
\* four bytes of each of its instructions
PrefixLen(proto) == Len(proto.ori.code) - 4 * Len(proto.code)

\* a tree with, in every node, the payload of the instruction-stream span
\* under the key and nothing else changed
RECURSIVE PayloadsUnderKey(_, _)
PayloadsUnderKey(proto, key) ==
    [proto EXCEPT
       !.ori = [proto.ori EXCEPT
                  !.code = Slice(proto.ori.code, 0, PrefixLen(proto))
                           \o PayloadUnderKey(Slice(proto.ori.code, PrefixLen(proto),
                                                    Len(proto.ori.code)), key)],
       !.protos = [i \in 1..Len(proto.protos) |-> PayloadsUnderKey(proto.protos[i], key)]]

\* C17: frame of the tree transform.  A call under a non-empty key replaces,
\* in every node, the bytes of the instruction-stream span after its size
\* prefix by those bytes under the key, the key starting again in every
\* node; the size prefix, the length of the span and every other field and
\* span of every node are as before the call.
TransformChangesPayloadOnly ==
    \A i \in 1..Len(calls) :
        KeyUsable(calls[i].mode, calls[i].key)
        => /\ ~calls[i].raised
           /\ TreeAfterCall(i) = PayloadsUnderKey(calls[i].before, calls[i].key[1])

\* Scenario 2's tree after encrypt under the key of five bytes: the root's
\* twelve bytes and the child's eight each start at the first key byte
TransformChangesPayloadOnlyWitness ==
    /\ file = Scenario2File
    /\ Len(calls) = 1 /\ calls[1].op = "encrypt" /\ calls[1].mode
    /\ calls[1].key = Some(<<1, 2, 3, 4, 5>>)
    /\ Spans(main_proto[1]) =
         << <<131, 80, 2, 3, 4, 6, 1, 2, 3, 194, 133, 1, 3>>,
            <<130, 10, 2, 3, 4, 66, 1, 130, 3>> >>
    /\ main_proto[1].code = calls[1].before.code

-----------------------------------------------------------------------------
(* luaparse.py: compare_opcodes *)

\* the number of keys of OPCODE_INFO: the opcodes 0 .. 82
NUM_OPCODES == 83

\* the opcodes of OPCODE_INFO whose mode is not iABC: LOADI, LOADF, FORLOOP,
\* FORPREP, TFORPREP and TFORLOOP are iAsBx; LOADK, LOADKX and CLOSURE are
\* iABx; JMP is isJ; EXTRAARG is iAx
Opcodes_iAsBx == {1, 2, 73, 74, 75, 77}
Opcodes_iABx == {3, 4, 79}
Opcodes_isJ == {56}
Opcodes_iAx == {82}

\* the mode OPCODE_INFO gives to an opcode in 0 .. 82
OPCODE_INFO_mode(opcode) ==
    CASE opcode \in Opcodes_iAsBx -> "iAsBx"
      [] opcode \in Opcodes_iABx -> "iABx"
      [] opcode \in Opcodes_isJ -> "isJ"
      [] opcode \in Opcodes_iAx -> "iAx"
      [] OTHER -> "iABC"

\* the shifts and masks of decode_instruction on the four bytes of a word:
\* (inst >> 7) & 0xFF, (inst >> 15) & 0x1, (inst >> 16) & 0xFF,
\* (inst >> 24) & 0xFF, (inst >> 15) & 0x1FFFF, (inst >> 7) & 0x1FFFFFF
\* (inst >> 8) & 0xFF
Shr8AndFF(inst) == inst[2]

Shr7AndFF(inst) == (inst[1] \div 128) + (inst[2] % 128) * 2
Shr15And1(inst) == inst[2] \div 128
Shr16AndFF(inst) == inst[3]
Shr24AndFF(inst) == inst[4]

\* (inst >> 16) & 0xFFFF
Shr16AndFFFF(inst) == inst[3] + inst[4] * 256

Shr15And1FFFF(inst) == (inst[2] \div 128) + inst[3] * 2 + inst[4] * 512
Shr7And1FFFFFF(inst) ==
    (inst[1] \div 128) + inst[2] * 2 + inst[3] * 512 + inst[4] * 131072

\* the keys decode_instruction adds for a mode
ModeResult(mode, inst) ==
    CASE mode = "iABC" ->
            [A |-> Shr7AndFF(inst), B |-> Shr16AndFF(inst),
             k |-> Shr15And1(inst), C |-> Shr24AndFF(inst)]
      [] mode = "iABx" -> [A |-> Shr7AndFF(inst), Bx |-> Shr15And1FFFF(inst)]
      [] mode = "iAsBx" ->
            [A |-> Shr7AndFF(inst), sBx |-> Shr15And1FFFF(inst) - 65535]
      [] mode = "iAx" -> [Ax |-> Shr7And1FFFFFF(inst)]
      [] mode = "isJ" -> [sJ |-> Shr7And1FFFFFF(inst) - 16777215]

\* decode_instruction(inst) of an instruction word held as its four bytes,
\* low byte first: opcode = inst & 0x7F, and the name stays 'UNKNOWN' and
\* the result has no other key unless the opcode is a key of OPCODE_INFO
decode_instruction(inst) ==
    LET opcode == inst[1] % 128
    IN  IF opcode < NUM_OPCODES
        THEN [raw |-> inst, opcode |-> opcode, name |-> "OPCODE_INFO",
              mode |-> OPCODE_INFO_mode(opcode)]
             @@ ModeResult(OPCODE_INFO_mode(opcode), inst)
        ELSE [raw |-> inst, opcode |-> opcode, name |-> "UNKNOWN"]

\* the instructions of the children first, then those of the prototype
RECURSIVE _extract_all_instructions_children_first(_)
_extract_all_instructions_children_first(proto) ==
    Flatten([i \in 1..Len(proto.protos) |->
                _extract_all_instructions_children_first(proto.protos[i])])
    \o proto.code

\* _extract_all_instructions: the code of the prototype, then of each child
RECURSIVE _extract_all_instructions(_)
_extract_all_instructions(proto) ==
    proto.code
    \o Flatten([i \in 1..Len(proto.protos) |-> _extract_all_instructions(proto.protos[i])])

\* the body of the loop of _analyze_opcode_mapping, with the first pair
\* that has the key overwritten by every later one
record_pair_last_seen(acc, std_opcode, shuf_opcode) ==
    IF std_opcode \in DOMAIN acc.opcode_mapping
    THEN IF acc.opcode_mapping[std_opcode] # shuf_opcode
         THEN [opcode_mapping |-> [acc.opcode_mapping EXCEPT ![std_opcode] = shuf_opcode],
               warnings |-> Append(acc.warnings, <<std_opcode,
                                                  acc.opcode_mapping[std_opcode],
                                                  shuf_opcode>>)]
         ELSE acc
    ELSE [acc EXCEPT !.opcode_mapping = (std_opcode :> shuf_opcode) @@ @]

\* the body of the loop of _analyze_opcode_mapping: a key that is in the
\* mapping keeps its value, and a different value prints one warning
record_pair(acc, std_opcode, shuf_opcode) ==
    IF std_opcode \in DOMAIN acc.opcode_mapping
    THEN IF acc.opcode_mapping[std_opcode] # shuf_opcode
         THEN [acc EXCEPT !.warnings = Append(@, <<std_opcode,
                                                   acc.opcode_mapping[std_opcode],
                                                   shuf_opcode>>)]
         ELSE acc
    ELSE [acc EXCEPT !.opcode_mapping = (std_opcode :> shuf_opcode) @@ @]

\* for std_inst, shuf_inst in zip(standard_instructions, shuffled_instructions)
RECURSIVE analyze_loop(_, _, _)
analyze_loop(standard_instructions, shuffled_instructions, acc) ==
    IF standard_instructions = <<>> \/ shuffled_instructions = <<>> THEN acc
    ELSE analyze_loop(Tail(standard_instructions), Tail(shuffled_instructions),
                      record_pair(acc, decode_instruction(standard_instructions[1]).opcode,
                                  decode_instruction(shuffled_instructions[1]).opcode))

\* _analyze_opcode_mapping: the dict returned, and the warnings printed
_analyze_opcode_mapping(standard_instructions, shuffled_instructions) ==
    analyze_loop(standard_instructions, shuffled_instructions,
                 [opcode_mapping |-> <<>>, warnings |-> <<>>])

\* the test of compare_opcodes with the second list taken no longer than
\* the first
count_mismatch_longer(standard_instructions, shuffled_instructions) ==
    Len(standard_instructions) > Len(shuffled_instructions)

\* the test of compare_opcodes:
\*   if len(standard_instructions) != len(shuffled_instructions): raise
count_mismatch(standard_instructions, shuffled_instructions) ==
    Len(standard_instructions) # Len(shuffled_instructions)

\* compare_opcodes once both files are parsed
compare_instructions(standard_instructions, shuffled_instructions) ==
    IF count_mismatch(standard_instructions, shuffled_instructions)
    THEN Raise("ValueError: count", 0)
    ELSE Ok(0, _analyze_opcode_mapping(standard_instructions, shuffled_instructions),
            <<>>)

\* compare_opcodes with the standard file parsed in place of the shuffled one
compare_opcodes_self(standard_file, shuffled_file) ==
    AndThen(parse(standard_file), LAMBDA standard_parser :
    AndThen(parse(standard_file), LAMBDA shuffled_parser :
        compare_instructions(
            _extract_all_instructions(standard_parser.val.main_proto),
            _extract_all_instructions(shuffled_parser.val.main_proto))))

\* compare_opcodes(standard_file, shuffled_file)
compare_opcodes(standard_file, shuffled_file) ==
    AndThen(parse(standard_file), LAMBDA standard_parser :
    AndThen(parse(shuffled_file), LAMBDA shuffled_parser :
        compare_instructions(
            _extract_all_instructions(standard_parser.val.main_proto),
            _extract_all_instructions(shuffled_parser.val.main_proto))))

\* The files compared: a prototype with up to MaxCmpCode instructions, two
\* trees of a root and a child, and a file that is no dump.  The words have
\* the opcodes 5, 9, 5 again with other operands, and 100.
MaxCmpCode == 2

CmpInstrChoices == { <<5, 0, 0, 0>>, <<9, 0, 0, 0>>, <<133, 1, 0, 0>>, <<100, 0, 0, 0>> }

CmpFiles ==
    { GenFile(StdHeader, 0, GenProto(SrcNamed, Line0, code, <<>>, <<>>, <<>>, DbgEmpty))
        : code \in SeqsUpTo(CmpInstrChoices, MaxCmpCode) }
    \cup { GenFile(StdHeader, 0,
                   GenProto(SrcNamed, Line0, <<a>>, <<>>, <<>>,
                            <<GenLeaf(SrcAbsent, <<b>>)>>, DbgEmpty))
            : a \in {<<5, 0, 0, 0>>}, b \in {<<5, 0, 0, 0>>, <<9, 0, 0, 0>>} }
    \cup { <<27, 76>> }

\* the luaparse.py object of the other specifications, not in use
LuacOff ==
    /\ file = <<>> /\ origin = <<>> /\ phase = "off" /\ error = ""
    /\ upval_count = 0 /\ main_proto = None /\ encryption_key = None
    /\ encrypt_mode = FALSE /\ output = <<>> /\ parsed_proto = None /\ calls = <<>>

InitCompare ==
    /\ LuacOff
    /\ \E a \in CmpFiles, b \in CmpFiles :
          cmp = [pc |-> "new", standard_file |-> a, shuffled_file |-> b,
                 result |-> None, swapped |-> None]
    /\ disp = NoDisp /\ jit = NoJit /\ ins = NoIns /\ fn = NoFn

\* LuacParser.compare_opcodes(standard_file, shuffled_file)
CompareOpcodes ==
    /\ cmp.pc = "new"
    /\ LET r == compare_opcodes(cmp.standard_file, cmp.shuffled_file)
       IN  cmp' = [cmp EXCEPT !.pc = "compared", !.result = Some(r)]
    /\ UNCHANGED << luacVars, disp, jit, ins, fn >>

\* then LuacParser.compare_opcodes(shuffled_file, standard_file)
CompareOpcodesSwapped ==
    /\ cmp.pc = "compared"
    /\ LET r == compare_opcodes(cmp.shuffled_file, cmp.standard_file)
       IN  cmp' = [cmp EXCEPT !.pc = "swapped", !.swapped = Some(r)]
    /\ UNCHANGED << luacVars, disp, jit, ins, fn >>

NextCompare == CompareOpcodes \/ CompareOpcodesSwapped

SpecCompare == InitCompare /\ [][NextCompare]_vars

-----------------------------------------------------------------------------
(* Properties of compare_opcodes *)

\* the opcodes of the flattened instruction sequence of a file that parses,
\* and the empty sequence for one that does not
OpcodesOfTree(r) ==
    IF ~r.ok THEN <<>>
    ELSE [i \in 1..Len(_extract_all_instructions(r.val.main_proto)) |->
            _extract_all_instructions(r.val.main_proto)[i][1] % 128]
OpcodesOf(f) == LET r == parse(f) IN OpcodesOfTree(r)

BothParse == parse(cmp.standard_file).ok /\ parse(cmp.shuffled_file).ok
Compared == cmp.pc \in {"compared", "swapped"} /\ BothParse

CountMismatchRaised(r) == ~r.ok /\ r.err = "ValueError: count"

CountMismatchIff(std, shuf, r) ==
    /\ CountMismatchRaised(r) <=> Len(std) # Len(shuf)
    /\ CountMismatchRaised(r) => r.val = <<>>

\* C7: compare raises the count mismatch, and returns no mapping, exactly
\* when the flattened instruction sequences of the two trees differ in
\* length.
CountMismatchIffLengthsDiffer ==
    Compared =>
        LET std == OpcodesOf(cmp.standard_file)
            shuf == OpcodesOf(cmp.shuffled_file)
        IN  CountMismatchIff(std, shuf, cmp.result[1])

\* a sequence of two instructions against a sequence of one: the call
\* raised
CountMismatchWitness ==
    /\ Compared
    /\ Len(OpcodesOf(cmp.standard_file)) = 2
    /\ Len(OpcodesOf(cmp.shuffled_file)) = 1
    /\ CountMismatchRaised(cmp.result[1])

\* the pairs of a mapping
Pairs(m) == { <<k, m[k]>> : k \in DOMAIN m }

\* the aligned pairs whose shuffled opcode differs from the entry of the
\* mapping for their standard opcode
Inconsistent(std, shuf, m) == { i \in 1..Len(std) : m[std[i]] # shuf[i] }

\* the first aligned pair in which the standard opcode k occurs
FirstPair(std, k) == CHOOSE i \in 1..Len(std) : std[i] = k /\ \A j \in 1..(i - 1) : std[j] # k

KeepsFirstSeen(std, shuf, r) ==
    Len(std) = Len(shuf)
    => /\ r.ok
       /\ DOMAIN r.val.opcode_mapping = { std[i] : i \in 1..Len(std) }
       /\ \A k \in DOMAIN r.val.opcode_mapping :
            r.val.opcode_mapping[k] = shuf[FirstPair(std, k)]
       /\ Len(r.val.warnings) = Cardinality(Inconsistent(std, shuf, r.val.opcode_mapping))

\* C8: for count-equal sequences the call returns; the keys of the mapping
\* are the opcodes of the standard sequence, each key maps to the shuffled
\* opcode of the first aligned pair it occurs in, and one warning is printed
\* for each later pair with that key and another shuffled opcode.
MappingKeepsFirstSeen ==
    Compared =>
        LET std == OpcodesOf(cmp.standard_file)
            shuf == OpcodesOf(cmp.shuffled_file)
        IN  KeepsFirstSeen(std, shuf, cmp.result[1])

\* opcodes 5, 5 against 9, 5: the mapping is 5 -> 9, with one warning
MappingKeepsFirstSeenWitness ==
    /\ Compared
    /\ OpcodesOf(cmp.standard_file) = <<5, 5>>
    /\ OpcodesOf(cmp.shuffled_file) = <<9, 5>>
    /\ cmp.result[1].ok
    /\ Pairs(cmp.result[1].val.opcode_mapping) = { <<5, 9>> }
    /\ cmp.result[1].val.warnings = << <<5, 9, 5>> >>

BothCompared ==
    /\ cmp.pc = "swapped" /\ BothParse
    /\ cmp.result[1].ok /\ cmp.swapped[1].ok

Inverse(pairs) == { <<p[2], p[1]>> : p \in pairs }

\* C9, as the specification states it: for any two count-equal trees, the
\* pairs of compare(B, A), each turned around, are the pairs of
\* compare(A, B).
SwapPreservesPairs ==
    BothCompared =>
        Inverse(Pairs(cmp.swapped[1].val.opcode_mapping))
            = Pairs(cmp.result[1].val.opcode_mapping)

AlignedPairs(std, shuf, m) == Pairs(m) = { <<std[i], shuf[i]>> : i \in 1..Len(std) }

\* C9, amended: the same, for two count-equal trees for which neither call
\* prints a warning; both sets are then the set of the aligned pairs.
SwapPreservesPairsWithoutWarnings ==
    (/\ BothCompared
     /\ cmp.result[1].val.warnings = <<>>
     /\ cmp.swapped[1].val.warnings = <<>>)
    => /\ Inverse(Pairs(cmp.swapped[1].val.opcode_mapping))
            = Pairs(cmp.result[1].val.opcode_mapping)
       /\ LET std == OpcodesOf(cmp.standard_file)
              shuf == OpcodesOf(cmp.shuffled_file)
          IN  AlignedPairs(std, shuf, cmp.result[1].val.opcode_mapping)

\* opcodes 5, 9 against 9, 100: 5 -> 9 and 9 -> 100 one way, 9 -> 5 and
\* 100 -> 9 the other
SwapPreservesPairsWitness ==
    /\ BothCompared
    /\ OpcodesOf(cmp.standard_file) = <<5, 9>>
    /\ OpcodesOf(cmp.shuffled_file) = <<9, 100>>
    /\ cmp.result[1].val.warnings = <<>>
    /\ cmp.swapped[1].val.warnings = <<>>
    /\ Pairs(cmp.result[1].val.opcode_mapping) = { <<5, 9>>, <<9, 100>> }
    /\ Pairs(cmp.swapped[1].val.opcode_mapping) = { <<9, 5>>, <<100, 9>> }

-----------------------------------------------------------------------------
(* lua_parser_unified.py: detect_lua_version and main *)

LUAJIT_SIGNATURE == <<27, 76, 74>>

\* The strings detect_lua_version returns.  main tests them by their first
\* characters: the two that begin with "unknown" (未知格式, 未知Lua版本) and
\* the one for a failed detection (检测失败) are fatal; parse_and_dump takes
\* every string that begins with "LuaJIT" to LuaJITParser.
UnknownFormat == "unknown format"
UnknownLuaVersion == "unknown Lua version"
DetectionFailed == "detection failed"
LuaJITUnknownVersion == "LuaJIT (unknown version)"

\* the version byte of a Lua signature, 0x51 .. 0x54
LuaVersionName(version) ==
    CASE version = 81 -> "Lua 5.1"
      [] version = 82 -> "Lua 5.2"
      [] version = 83 -> "Lua 5.3"
      [] version = 84 -> "Lua 5.4"

\* detect_lua_version: signature = f.read(4); version = f.read(1)[0];
\* format_version = f.read(1)[0], each an IndexError at the end of the file
detect_lua_version(data) ==
    IF FileRead(data, 0, 4) # LUA_SIGNATURE
       /\ Slice(FileRead(data, 0, 4), 0, 3) # LUAJIT_SIGNATURE
    THEN UnknownFormat
    ELSE IF Len(data) < 6 THEN DetectionFailed
    ELSE IF data[5] \in {81, 82, 83, 84} THEN LuaVersionName(data[5])
    ELSE IF Slice(data, 0, 3) = LUAJIT_SIGNATURE
         THEN (IF data[4] = 1 THEN "LuaJIT 2.0"
               ELSE IF data[4] = 2 THEN "LuaJIT 2.1"
               ELSE LuaJITUnknownVersion)
    ELSE UnknownLuaVersion

\* version.startswith("未知") or version.startswith("检测失败")
IsFatalVersion(version) == version \in {UnknownFormat, UnknownLuaVersion, DetectionFailed}

\* the parser parse_and_dump constructs and runs for a version string
parse_and_dump(version) ==
    CASE version \in {"LuaJIT 2.0", "LuaJIT 2.1", LuaJITUnknownVersion} -> "LuaJITParser"
      [] version = "Lua 5.1" -> "Lua51Parser"
      [] version = "Lua 5.2" -> "Lua52Parser"
      [] version = "Lua 5.3" -> "luaparse53.LuacParser"
      [] version = "Lua 5.4" -> "luaparse.LuacParser"
      [] OTHER -> "none"

\* main with an input file: the version detected, the exit status, the
\* parser run
main(data) ==
    IF IsFatalVersion(detect_lua_version(data))
    THEN [version |-> detect_lua_version(data), exit |-> 1, parser |-> "none"]
    ELSE [version |-> detect_lua_version(data), exit |-> 0,
          parser |-> parse_and_dump(detect_lua_version(data))]

\* The files given to main: a signature, a version byte, a format byte, and
\* every file cut after its third, fourth and fifth byte.
DispSignatures ==
    { LUA_SIGNATURE, <<27, 76, 74, 1>>, <<27, 76, 74, 2>>, <<27, 76, 74, 3>>,
      <<27, 76, 117, 98>>, <<0, 76, 117, 97>> }
DispVersionBytes == { 0, 2, 80, 81, 82, 83, 84, 85 }
DispFull == { sig \o <<v, 0>> : sig \in DispSignatures, v \in DispVersionBytes }
DispFiles == { Slice(f, 0, n) : f \in DispFull, n \in 3..6 }

InitDispatch ==
    /\ LuacOff
    /\ \E f \in DispFiles : disp = [pc |-> "new", data |-> f]
    /\ cmp = NoCmp /\ jit = NoJit /\ ins = NoIns /\ fn = NoFn

Main ==
    /\ disp.pc = "new"
    /\ LET r == main(disp.data)
       IN  disp' = [pc |-> "done", data |-> disp.data, version |-> r.version,
                    exit |-> r.exit, parser |-> r.parser]
    /\ UNCHANGED << luacVars, cmp, jit, ins, fn >>

NextDispatch == Main

SpecDispatch == InitDispatch /\ [][NextDispatch]_vars

-----------------------------------------------------------------------------
(* Properties of the dispatch *)

\* the parser the dispatch rule selects: the Lua signature and a version
\* byte 0x51 .. 0x54, the LuaJIT signature and its version byte 1 or 2
SelectedParser(data) ==
    IF Len(data) >= 5 /\ Slice(data, 0, 4) = LUA_SIGNATURE /\ data[5] \in {81, 82, 83, 84}
    THEN parse_and_dump(LuaVersionName(data[5]))
    ELSE IF Len(data) >= 4 /\ Slice(data, 0, 3) = LUAJIT_SIGNATURE /\ data[4] \in {1, 2}
    THEN "LuaJITParser"
    ELSE "none"

\* C6: format dispatch.  The Lua signature followed by 0x51 .. 0x54 selects
\* the parser of Lua 5.1 .. 5.4; the LuaJIT signature followed by 1 or 2
\* selects the LuaJIT parser, whatever follows the version byte; every other
\* file is fatal, and no parser is run on it.
FormatDispatchExact ==
    disp.pc = "done" =>
        /\ disp.parser = SelectedParser(disp.data)
        /\ disp.exit = 1 <=> SelectedParser(disp.data) = "none"

-----------------------------------------------------------------------------
(* luajitparse.py: the readers of LuaJITParser.  A reader is given the     *)
(* data and self.pos and returns the new position and the value; 64-bit    *)
(* values are kept as their two 32-bit halves lo and hi.                   *)

LUAJIT_VERSION == 1
BCDUMP_F_STRIP == 2
BCDUMP_KGC_CHILD == 0
BCDUMP_KGC_TAB == 1
BCDUMP_KGC_I64 == 2
BCDUMP_KGC_U64 == 3
BCDUMP_KGC_COMPLEX == 4
BCDUMP_KGC_STR == 5
BCDUMP_KTAB_NIL == 0
BCDUMP_KTAB_FALSE == 1
BCDUMP_KTAB_TRUE == 2
BCDUMP_KTAB_INT == 3
BCDUMP_KTAB_NUM == 4
BCDUMP_KTAB_STR == 5
VARNAME_END == 0
VARNAME_MAX == 7

\* the shift from which one more group of seven bits may pass the model's
\* integers; below it every value of read_uleb128 is exact
ModelShiftLimit == 28

LuaJITParser_read_byte(data, pos) ==
    IF pos >= Len(data) THEN Raise("Exception: read out of bounds", pos)
    ELSE Ok(pos + 1, data[pos + 1], <<>>)

LuaJITParser_read_uint16(data, pos) ==
    IF pos + 2 > Len(data) THEN Raise("Exception: read out of bounds", pos)
    ELSE Ok(pos + 2, data[pos + 1] + 256 * data[pos + 2], <<>>)

\* the value is the four bytes, low byte first
LuaJITParser_read_uint32(data, pos) ==
    IF pos + 4 > Len(data) THEN Raise("Exception: read out of bounds", pos)
    ELSE Ok(pos + 4, Slice(data, pos, pos + 4), <<>>)

\* read_uleb128: groups of seven bits, low group first; a fifth byte with
\* the high bit set raises
RECURSIVE read_uleb128_loop(_, _, _, _)
read_uleb128_loop(data, pos, result, shift) ==
    IF pos >= Len(data) THEN Raise("Exception: ULEB128 out of bounds", pos)
    ELSE IF shift >= ModelShiftLimit /\ data[pos + 1] % 128 >= 8
         THEN Raise("beyond the model", pos)
    ELSE IF data[pos + 1] < 128
         THEN Ok(pos + 1, result + (data[pos + 1] % 128) * Pow2(shift), <<>>)
    ELSE IF shift + 7 >= 35 THEN Raise("Exception: ULEB128 too long", pos + 1)
    ELSE read_uleb128_loop(data, pos + 1,
                           result + (data[pos + 1] % 128) * Pow2(shift), shift + 7)

LuaJITParser_read_uleb128(data, pos) == read_uleb128_loop(data, pos, 0, 0)

\* the loop of read_uleb128_33 for the low part, from shift 6; it ends at
\* the first byte without the high bit, or when shift reaches 32
RECURSIVE read_uleb128_33_loop(_, _, _, _)
read_uleb128_33_loop(data, pos, lo, shift) ==
    IF pos >= Len(data) THEN Raise("Exception: ULEB128_33 out of bounds", pos)
    ELSE IF shift + 7 >= ModelShiftLimit THEN Raise("beyond the model", pos)
    ELSE IF data[pos + 1] < 128 \/ shift + 7 >= 32
         THEN Ok(pos + 1, lo + (data[pos + 1] % 128) * Pow2(shift), <<>>)
    ELSE read_uleb128_33_loop(data, pos + 1,
                              lo + (data[pos + 1] % 128) * Pow2(shift), shift + 7)

\* the low part of read_uleb128_33
read_uleb128_33_lo(data, pos) ==
    IF data[pos + 1] \div 2 > 63
    THEN read_uleb128_33_loop(data, pos + 1, (data[pos + 1] \div 2) % 64, 6)
    ELSE Ok(pos + 1, (data[pos + 1] \div 2) % 64, <<>>)

\* read_uleb128_33: ((lo, hi), is_num)
LuaJITParser_read_uleb128_33(data, pos) ==
    IF pos >= Len(data) THEN Raise("Exception: ULEB128_33 out of bounds", pos)
    ELSE
    AndThen(read_uleb128_33_lo(data, pos), LAMBDA lo :
        IF data[pos + 1] % 2 # 0
        THEN AndThen(LuaJITParser_read_uleb128(data, lo.pos), LAMBDA hi :
                Ok(hi.pos, [lo |-> lo.val, hi |-> hi.val, is_num |-> TRUE], <<>>))
        ELSE Ok(lo.pos, [lo |-> lo.val, hi |-> 0, is_num |-> FALSE], <<>>))

\* data.decode('utf-8'), and data.decode('latin-1') when that fails
\* the bytes are valid UTF-8 when their decoding encodes back to them
Utf8OrLatin1(b) ==
    IF Utf8Encode(Utf8Decode(b)) # b THEN b ELSE Utf8Decode(b)

LuaJITParser_read_string(data, pos, length) ==
    IF pos + length > Len(data) THEN Raise("Exception: string out of bounds", pos)
    ELSE Ok(pos + length, Utf8OrLatin1(Slice(data, pos, pos + length)), <<>>)

\* read_header: the signature, the version (another version than
\* LUAJIT_VERSION prints a warning), the flags, and the source name of a
\* dump that is not stripped
header_info(pos, version, flags, source_name) ==
    Ok(pos, [version |-> version, flags |-> flags,
             is_stripped |-> (flags \div BCDUMP_F_STRIP) % 2 = 1,
             source_name |-> source_name,
             warnings |-> IF version # LUAJIT_VERSION THEN <<"version">> ELSE <<>>], <<>>)

LuaJITParser_read_header(data) ==
    IF 3 > Len(data) THEN Raise("Exception: file too small", 0)
    ELSE IF Slice(data, 0, 3) # LUAJIT_SIGNATURE THEN Raise("Exception: signature", 0)
    ELSE
    AndThen(LuaJITParser_read_byte(data, 3), LAMBDA version :
    AndThen(LuaJITParser_read_uleb128(data, version.pos), LAMBDA flags :
        IF (flags.val \div BCDUMP_F_STRIP) % 2 = 1
        THEN header_info(flags.pos, version.val, flags.val, <<>>)
        ELSE
        AndThen(LuaJITParser_read_uleb128(data, flags.pos), LAMBDA name_len :
            IF name_len.val > 0
            THEN AndThen(LuaJITParser_read_string(data, name_len.pos, name_len.val),
                         LAMBDA source_name :
                    header_info(source_name.pos, version.val, flags.val, source_name.val))
            ELSE header_info(name_len.pos, version.val, flags.val, <<>>))))

\* two ULEB128 values: lo, then hi
read_lo_hi(data, pos) ==
    AndThen(LuaJITParser_read_uleb128(data, pos), LAMBDA lo :
    AndThen(LuaJITParser_read_uleb128(data, lo.pos), LAMBDA hi :
        Ok(hi.pos, <<lo.val, hi.val>>, <<>>)))

\* read_table_item
LuaJITParser_read_table_item(data, pos) ==
    AndThen(LuaJITParser_read_uleb128(data, pos), LAMBDA item_type :
        IF item_type.val >= BCDUMP_KTAB_STR
        THEN AndThen(LuaJITParser_read_string(data, item_type.pos,
                                              item_type.val - BCDUMP_KTAB_STR),
                     LAMBDA str : Ok(str.pos, [t |-> "str", v |-> str.val], <<>>))
        ELSE IF item_type.val = BCDUMP_KTAB_INT
        THEN AndThen(LuaJITParser_read_uleb128(data, item_type.pos),
                     LAMBDA int : Ok(int.pos, [t |-> "int", v |-> int.val], <<>>))
        ELSE IF item_type.val = BCDUMP_KTAB_NUM
        THEN AndThen(read_lo_hi(data, item_type.pos),
                     LAMBDA num : Ok(num.pos, [t |-> "float", v |-> num.val], <<>>))
        ELSE IF item_type.val = BCDUMP_KTAB_TRUE
        THEN Ok(item_type.pos, [t |-> "bool", v |-> TRUE], <<>>)
        ELSE IF item_type.val = BCDUMP_KTAB_FALSE
        THEN Ok(item_type.pos, [t |-> "bool", v |-> FALSE], <<>>)
        ELSE IF item_type.val = BCDUMP_KTAB_NIL
        THEN Ok(item_type.pos, [t |-> "None", v |-> <<>>], <<>>)
        ELSE Raise("Exception: table item type", item_type.pos))

\* one entry of the hash part of read_table: the key, then the value
read_table_hash_item(data, pos) ==
    AndThen(LuaJITParser_read_table_item(data, pos), LAMBDA key :
    AndThen(LuaJITParser_read_table_item(data, key.pos), LAMBDA value :
        Ok(value.pos, <<key.val, value.val>>, <<>>)))

\* read_table
LuaJITParser_read_table(data, pos) ==
    AndThen(LuaJITParser_read_uleb128(data, pos), LAMBDA array_count :
    AndThen(LuaJITParser_read_uleb128(data, array_count.pos), LAMBDA hash_count :
    AndThen(read_n(LuaJITParser_read_table_item, data, hash_count.pos,
                   array_count.val, <<>>, <<>>), LAMBDA array_items :
    AndThen(read_n(read_table_hash_item, data, array_items.pos, hash_count.val,
                   <<>>, <<>>), LAMBDA hash_items :
        Ok(hash_items.pos,
           [array_items |-> array_items.val, hash_items |-> hash_items.val], <<>>)))))

\* one GC constant of read_proto
read_constant_gc(data, pos) ==
    AndThen(LuaJITParser_read_uleb128(data, pos), LAMBDA const_type :
        IF const_type.val >= BCDUMP_KGC_STR
        THEN AndThen(LuaJITParser_read_string(data, const_type.pos,
                                              const_type.val - BCDUMP_KGC_STR),
                     LAMBDA str_data : Ok(str_data.pos, <<"string", str_data.val>>, <<>>))
        ELSE IF const_type.val = BCDUMP_KGC_TAB
        THEN AndThen(LuaJITParser_read_table(data, const_type.pos),
                     LAMBDA tab : Ok(tab.pos, <<"table", tab.val>>, <<>>))
        ELSE IF const_type.val = BCDUMP_KGC_CHILD
        THEN Ok(const_type.pos, <<"child_ref", None>>, <<>>)
        ELSE IF const_type.val = BCDUMP_KGC_I64
        THEN AndThen(read_lo_hi(data, const_type.pos),
                     LAMBDA val : Ok(val.pos, <<"i64", val.val>>, <<>>))
        ELSE IF const_type.val = BCDUMP_KGC_U64
        THEN AndThen(read_lo_hi(data, const_type.pos),
                     LAMBDA val : Ok(val.pos, <<"u64", val.val>>, <<>>))
        ELSE IF const_type.val = BCDUMP_KGC_COMPLEX
        THEN AndThen(read_lo_hi(data, const_type.pos), LAMBDA real :
             AndThen(read_lo_hi(data, real.pos), LAMBDA imag :
                Ok(imag.pos, <<"complex", <<real.val, imag.val>>>>, <<>>)))
        ELSE Raise("Exception: GC constant type", const_type.pos))

\* one numeric constant of read_proto: a float as its halves, or the
\* integer lo, which below the model's limit is below 1 << 31
read_constant_num(data, pos) ==
    AndThen(LuaJITParser_read_uleb128_33(data, pos), LAMBDA k :
        IF k.val.is_num THEN Ok(k.pos, <<"float", <<k.val.lo, k.val.hi>>>>, <<>>)
        ELSE Ok(k.pos, <<"int", k.val.lo>>, <<>>))

\* debuginfo_size, firstline, numline of read_proto: read unless the dump
\* is stripped
read_debug_sizes(data, pos, flags) ==
    IF (flags \div BCDUMP_F_STRIP) % 2 = 1
    THEN Ok(pos, [debuginfo_size |-> 0, firstline |-> 0, numline |-> 0], <<>>)
    ELSE
    AndThen(LuaJITParser_read_uleb128(data, pos), LAMBDA debuginfo_size :
    AndThen(LuaJITParser_read_uleb128(data, debuginfo_size.pos), LAMBDA firstline :
    AndThen(LuaJITParser_read_uleb128(data, firstline.pos), LAMBDA numline :
        Ok(numline.pos, [debuginfo_size |-> debuginfo_size.val,
                         firstline |-> firstline.val, numline |-> numline.val], <<>>))))

\* the line numbers of read_proto: none when numline is 0, else numbc of
\* them, of 32, 16 or 8 bits by numline
read_lineinfo(data, pos, numline, numbc) ==
    IF numline = 0 THEN Ok(pos, <<>>, <<>>)
    ELSE IF numline >= 65536
    THEN read_n(LuaJITParser_read_uint32, data, pos, numbc, <<>>, <<>>)
    ELSE IF numline >= 256
    THEN read_n(LuaJITParser_read_uint16, data, pos, numbc, <<>>, <<>>)
    ELSE read_n(LuaJITParser_read_byte, data, pos, numbc, <<>>, <<>>)

\* one upvalue name of read_proto
read_uvname(data, pos) ==
    AndThen(LuaJITParser_read_uleb128(data, pos), LAMBDA name_len :
        IF name_len.val > 0
        THEN LuaJITParser_read_string(data, name_len.pos, name_len.val)
        ELSE Ok(name_len.pos, <<>>, <<>>))

\* the name the variable loop of read_proto appends for var_type, if any:
\* the string that follows, or "<type_N>" for N below VARNAME_MAX
read_varname(data, pos, var_type) ==
    IF var_type >= VARNAME_MAX
    THEN IF var_type - VARNAME_MAX > 0
         THEN AndThen(LuaJITParser_read_string(data, pos, var_type - VARNAME_MAX),
                      LAMBDA name : Ok(name.pos, <<name.val>>, <<>>))
         ELSE Ok(pos, <<>>, <<>>)
    ELSE Ok(pos, << <<60, 116, 121, 112, 101, 95, 48 + var_type, 62>> >>, <<>>)

\* while self.pos < self.size: the variable names, to VARNAME_END
RECURSIVE read_varnames(_, _, _)
read_varnames(data, pos, varnames) ==
    IF pos >= Len(data) THEN Ok(pos, varnames, <<>>)
    ELSE
    AndThen(LuaJITParser_read_byte(data, pos), LAMBDA var_type :
        IF var_type.val = VARNAME_END THEN Ok(var_type.pos, varnames, <<>>)
        ELSE
        AndThen(read_varname(data, var_type.pos, var_type.val), LAMBDA name :
        AndThen(LuaJITParser_read_uleb128(data, name.pos), LAMBDA start_addr :
        AndThen(LuaJITParser_read_uleb128(data, start_addr.pos), LAMBDA end_addr :
            read_varnames(data, end_addr.pos, varnames \o name.val)))))

\* the debug information of read_proto, read when the dump is not stripped
\* and debuginfo_size > 0
read_debuginfo(data, pos, flags, sizes, numbc, numuv) ==
    IF (flags \div BCDUMP_F_STRIP) % 2 = 1 \/ sizes.debuginfo_size = 0
    THEN Ok(pos, [lineinfo |-> <<>>, uvnames |-> <<>>, varnames |-> <<>>], <<>>)
    ELSE
    AndThen(read_lineinfo(data, pos, sizes.numline, numbc), LAMBDA lineinfo :
    AndThen(read_n(read_uvname, data, lineinfo.pos, numuv, <<>>, <<>>), LAMBDA uvnames :
    AndThen(read_varnames(data, uvnames.pos, <<>>), LAMBDA varnames :
        Ok(varnames.pos, [lineinfo |-> lineinfo.val, uvnames |-> uvnames.val,
                          varnames |-> varnames.val], <<>>))))

\* the Proto of a size field of 0, returned at once
EmptyProto == [size |-> 0]

\* read_proto under self.flags
LuaJITParser_read_proto(data, pos, self_flags) ==
    AndThen(LuaJITParser_read_uleb128(data, pos), LAMBDA size :
        IF size.val = 0 THEN Ok(size.pos, EmptyProto, <<>>)
        ELSE
    AndThen(LuaJITParser_read_byte(data, size.pos), LAMBDA flags :
    AndThen(LuaJITParser_read_byte(data, flags.pos), LAMBDA numparams :
    AndThen(LuaJITParser_read_byte(data, numparams.pos), LAMBDA framesize :
    AndThen(LuaJITParser_read_byte(data, framesize.pos), LAMBDA numuv :
    AndThen(LuaJITParser_read_uleb128(data, numuv.pos), LAMBDA numkgc :
    AndThen(LuaJITParser_read_uleb128(data, numkgc.pos), LAMBDA numkn :
    AndThen(LuaJITParser_read_uleb128(data, numkn.pos), LAMBDA numbc :
    AndThen(read_debug_sizes(data, numbc.pos, self_flags), LAMBDA sizes :
    AndThen(read_n(LuaJITParser_read_uint32, data, sizes.pos, numbc.val, <<>>, <<>>),
            LAMBDA bytecode :
    AndThen(read_n(LuaJITParser_read_uint16, data, bytecode.pos, numuv.val, <<>>, <<>>),
            LAMBDA uv_data :
    AndThen(read_n(read_constant_gc, data, uv_data.pos, numkgc.val, <<>>, <<>>),
            LAMBDA constants_gc :
    AndThen(read_n(read_constant_num, data, constants_gc.pos, numkn.val, <<>>, <<>>),
            LAMBDA constants_num :
    AndThen(read_debuginfo(data, constants_num.pos, self_flags, sizes.val, numbc.val,
                           numuv.val), LAMBDA debuginfo :
        Ok(debuginfo.pos,
           [size |-> size.val, flags |-> flags.val, numparams |-> numparams.val,
            framesize |-> framesize.val, numuv |-> numuv.val, numkgc |-> numkgc.val,
            numkn |-> numkn.val, numbc |-> numbc.val,
            debuginfo_size |-> sizes.val.debuginfo_size,
            firstline |-> sizes.val.firstline, numline |-> sizes.val.numline,
            bytecode |-> bytecode.val, uv_data |-> uv_data.val,
            constants_gc |-> constants_gc.val, constants_num |-> constants_num.val,
            lineinfo |-> debuginfo.val.lineinfo, uvnames |-> debuginfo.val.uvnames,
            varnames |-> debuginfo.val.varnames], <<>>)))))))))))))))

\* what parse returns: the header, the prototypes, and the warnings printed
Returned(header, protos, warnings) ==
    Ok(0, [header |-> header, protos |-> protos, warnings |-> warnings], <<>>)

\* the body of the loop of parse: an exception of read_proto prints a
\* warning and ends the loop, as a size of 0 does
RECURSIVE parse_loop(_, _, _, _)
parse_protos(data, header, protos, proto) ==
    IF ~proto.ok THEN Returned(header, protos, <<proto.err>>)
    ELSE IF proto.val.size = 0 THEN Returned(header, protos, <<>>)
    ELSE parse_loop(data, proto.pos, header, Append(protos, proto.val))

\* while self.pos < self.size
parse_loop(data, pos, header, protos) ==
    IF pos >= Len(data) THEN Returned(header, protos, <<>>)
    ELSE parse_protos(data, header, protos,
                      LuaJITParser_read_proto(data, pos, header.flags))

\* LuaJITParser(data).parse()
LuaJITParser_parse(data) ==
    AndThen(LuaJITParser_read_header(data), LAMBDA header :
        parse_loop(data, header.pos, header.val, <<>>))

\* The data given to LuaJITParser: a stripped dump of two prototypes and a
\* dump with debug information, each also cut at every length, and two
\* dumps with a size field of five bytes that all have the high bit set.
JitSized(body) == <<Len(body)>> \o body

JitStripped(version) == LUAJIT_SIGNATURE \o <<version, BCDUMP_F_STRIP>>

\* one instruction, one upvalue, the constants "a", a child, a table
\* {7, [true] = "b"}, the integer 5 and a float
JitProtoA ==
    JitSized(<<0, 1, 2, 1, 3, 2, 1>> \o <<41, 0, 1, 0>> \o <<0, 128>>
             \o <<6, 97>> \o <<BCDUMP_KGC_CHILD>>
             \o <<BCDUMP_KGC_TAB, 1, 1, BCDUMP_KTAB_INT, 7, BCDUMP_KTAB_TRUE, 6, 98>>
             \o <<10>> \o <<11, 1>>)

\* no instruction, an i64, a u64 and a complex constant, the integer 74 in
\* two bytes
JitProtoB ==
    JitSized(<<0, 0, 1, 0, 3, 1, 0>>
             \o <<BCDUMP_KGC_I64, 1, 0>> \o <<BCDUMP_KGC_U64, 0, 1>>
             \o <<BCDUMP_KGC_COMPLEX, 1, 0, 0, 1>>
             \o <<148, 1>>)

\* two instructions with their lines, an upvalue "u", a variable "x" and a
\* variable of type 1
JitProtoC ==
    JitSized(<<0, 0, 1, 1, 0, 0, 2>> \o <<5, 1, 3>>
             \o <<41, 0, 1, 0>> \o <<75, 0, 1, 0>> \o <<0, 0>>
             \o <<1, 2>> \o <<1, 117>>
             \o <<8, 120, 0, 1>> \o <<1, 0, 2>> \o <<VARNAME_END>>)

JitOverlong == <<128, 128, 128, 128, 128>>

JitWhole ==
    { JitStripped(LUAJIT_VERSION) \o JitProtoA \o JitProtoB \o <<0>>,
      LUAJIT_SIGNATURE \o <<2, 0, 1, 120>> \o JitProtoC \o <<0>> }

JitFiles ==
    { Slice(f, 0, n) : f \in JitWhole, n \in 0..70 }
    \cup { JitStripped(2) \o JitOverlong,
           JitStripped(LUAJIT_VERSION) \o JitProtoA \o JitOverlong }

InitJIT ==
    /\ LuacOff
    /\ \E f \in JitFiles : jit = [pc |-> "new", data |-> f]
    /\ cmp = NoCmp /\ disp = NoDisp /\ ins = NoIns /\ fn = NoFn

\* header_info, protos = LuaJITParser(data).parse()
LuaJITParse ==
    /\ jit.pc = "new"
    /\ LET r == LuaJITParser_parse(jit.data)
       IN  jit' = [pc |-> "done", data |-> jit.data, result |-> r]
    /\ UNCHANGED << luacVars, cmp, disp, ins, fn >>

NextJIT == LuaJITParse

SpecJIT == InitJIT /\ [][NextJIT]_vars

-----------------------------------------------------------------------------
(* Properties of LuaJITParser.parse *)

\* C4: no partial result.  When a read fails inside a prototype, parse
\* fails; it never returns the prototypes decoded before the failure.
NoPartialResult ==
    (jit.pc = "done" /\ jit.result.ok) => jit.result.val.warnings = <<>>

-----------------------------------------------------------------------------
(* luaparse51.py, luaparse53.py: read_instruction.  An instruction word is *)
(* its four bytes, low byte first.                                         *)

\* the members of OpCode: 0 .. 37 in luaparse51.py, 0 .. 46 in luaparse53.py
Lua51_NUM_OPCODES == 38
Lua53_NUM_OPCODES == 47
SIZEOF_INSTRUCTION == 4

\* read(size) of Lua51Parser and of the LuacParser of luaparse53.py
Lua5x_read(data, pos, size) ==
    IF pos + size > Len(data) THEN Raise("Exception: read out of bounds", pos)
    ELSE Ok(pos + size, Slice(data, pos, pos + size), <<>>)

\* OpCode(value): the member, or a ValueError
OpCode(value, num_opcodes, pos) ==
    IF value < num_opcodes THEN Ok(pos, value, <<>>)
    ELSE Raise("ValueError: OpCode", pos)

\* the fields of a word: a = (raw >> 6) & 0xFF, c = (raw >> 14) & 0x1FF,
\* b = (raw >> 23) & 0x1FF, bx = (raw >> 14) & 0x3FFFF, sbx = bx - 131071,
\* ax = (raw >> 6) & 0x3FFFFFF
InstructionFields(opcode, raw) ==
    [opcode |-> opcode,
     a |-> (raw[1] \div 64) + (raw[2] % 64) * 4,
     c |-> (raw[2] \div 64) + (raw[3] % 128) * 4,
     b |-> (raw[3] \div 128) + raw[4] * 2,
     bx |-> (raw[2] \div 64) + raw[3] * 4 + raw[4] * 1024,
     sbx |-> (raw[2] \div 64) + raw[3] * 4 + raw[4] * 1024 - 131071,
     ax |-> (raw[1] \div 64) + raw[2] * 4 + raw[3] * 1024 + raw[4] * 262144,
     raw |-> raw]

\* Lua51Parser.read_instruction (it keeps no ax)
Lua51Parser_read_instruction(data, pos) ==
    AndThen(Lua5x_read(data, pos, SIZEOF_INSTRUCTION), LAMBDA raw :
    AndThen(OpCode(raw.val[1] % 64, Lua51_NUM_OPCODES, raw.pos), LAMBDA opcode :
        Ok(raw.pos, [InstructionFields(opcode.val, raw.val) EXCEPT !.ax = 0], <<>>)))

\* read_instruction of luaparse53.py
Lua53_read_instruction(data, pos) ==
    AndThen(Lua5x_read(data, pos, SIZEOF_INSTRUCTION), LAMBDA raw :
    AndThen(OpCode(raw.val[1] % 64, Lua53_NUM_OPCODES, raw.pos), LAMBDA opcode :
        Ok(raw.pos, InstructionFields(opcode.val, raw.val), <<>>)))

\* the decoding of one word of a prototype by the parser of a format; the
\* parser of Lua 5.4 reads the word in read_code and decodes it with
\* decode_instruction
DecodeWord(format, data) ==
    CASE format = "Lua 5.1" -> Lua51Parser_read_instruction(data, 0)
      [] format = "Lua 5.3" -> Lua53_read_instruction(data, 0)
      [] format = "Lua 5.4" ->
            AndThen(read_inst(data, 0), LAMBDA inst :
                Ok(inst.pos, decode_instruction(inst.val), <<>>))

\* the words decoded: every low byte, with four choices of the other bytes,
\* and a word cut short
InsWords ==
    { <<b0, b1, 128, 1>> : b0 \in 0..255, b1 \in {0, 193} }
    \cup { <<b0>> \o hi : b0 \in 0..255, hi \in { <<255, 255, 255>>, <<128, 1, 254>> } }
    \cup { <<1, 2>> }

InitInstr ==
    /\ LuacOff
    /\ \E f \in {"Lua 5.1", "Lua 5.3", "Lua 5.4"}, w \in InsWords :
          ins = [pc |-> "new", format |-> f, data |-> w]
    /\ cmp = NoCmp /\ disp = NoDisp /\ jit = NoJit /\ fn = NoFn

ReadInstruction ==
    /\ ins.pc = "new"
    /\ LET r == DecodeWord(ins.format, ins.data)
       IN  ins' = [pc |-> "done", format |-> ins.format, data |-> ins.data,
                   result |-> r]
    /\ UNCHANGED << luacVars, cmp, disp, jit, fn >>

NextInstr == ReadInstruction

SpecInstr == InitInstr /\ [][NextInstr]_vars

-----------------------------------------------------------------------------
(* Properties of the instruction decoders *)

\* C10: an opcode outside the table still decodes.  In every format, every
\* word of 32 bits decodes without an error, and in the format that names
\* its opcodes a word whose opcode is outside the table is named UNKNOWN.
UnknownOpcodeDecodes ==
    (ins.pc = "done" /\ Len(ins.data) = SIZEOF_INSTRUCTION)
    => /\ ins.result.ok
       /\ (ins.format = "Lua 5.4" /\ ins.data[1] % 128 >= NUM_OPCODES)
            => ins.result.val.name = "UNKNOWN"

\* bit i of a word, bit 0 the lowest, and the number held in bits lo .. hi
BitOfWord(inst, i) == (inst[(i \div 8) + 1] \div (2 ^ (i % 8))) % 2

RECURSIVE BitsOfWord(_, _, _)
BitsOfWord(inst, lo, hi) ==
    IF hi < lo THEN 0 ELSE BitOfWord(inst, lo) + 2 * BitsOfWord(inst, lo + 1, hi)

\* the fields of each addressing mode
ModeFields(mode) ==
    CASE mode = "iABC" -> {"A", "B", "C", "k"}
      [] mode = "iABx" -> {"A", "Bx"}
      [] mode = "iAsBx" -> {"A", "sBx"}
      [] mode = "iAx" -> {"Ax"}
      [] mode = "isJ" -> {"sJ"}

\* what a field of a word is, from the bits of the word
FieldOfWord(field, inst) ==
    CASE field = "A" -> BitsOfWord(inst, 7, 14)
      [] field = "k" -> BitsOfWord(inst, 15, 15)
      [] field = "B" -> BitsOfWord(inst, 16, 23)
      [] field = "C" -> BitsOfWord(inst, 24, 31)
      [] field = "Bx" -> BitsOfWord(inst, 15, 31)
      [] field = "sBx" -> BitsOfWord(inst, 15, 31) - 65535
      [] field = "Ax" -> BitsOfWord(inst, 7, 31)
      [] field = "sJ" -> BitsOfWord(inst, 7, 31) - 16777215

DecodedFields(view, inst) ==
    /\ DOMAIN view = {"raw", "opcode", "name", "mode"} \cup ModeFields(view.mode)
    /\ view.mode = OPCODE_INFO_mode(view.opcode)
    /\ \A field \in ModeFields(view.mode) : view[field] = FieldOfWord(field, inst)

\* C19: the fields of the addressing mode and no others.  The view that
\* decode_instruction gives of a word whose opcode, its low 7 bits, is in
\* the table holds the fields of the opcode's mode, each with the bits the
\* mode gives it, and no field of another mode.
DecodeGivesModeFields ==
    (/\ ins.pc = "done" /\ ins.format = "Lua 5.4"
     /\ Len(ins.data) = SIZEOF_INSTRUCTION
     /\ ins.data[1] % 128 < NUM_OPCODES)
    => /\ ins.result.ok
       /\ DecodedFields(ins.result.val, ins.data)

\* a word of each mode with bits set in every field: MOVE, LOADK, LOADI,
\* EXTRAARG and JMP above the bytes 80 01 FE, and JMP with every bit set
DecodeGivesModeFieldsWitness ==
    /\ ins.pc = "done" /\ ins.format = "Lua 5.4" /\ ins.result.ok
    /\ LET view == ins.result.val
       IN  \/ /\ ins.data = <<128, 128, 1, 254>>
              /\ view.A = 1 /\ view.k = 1 /\ view.B = 1 /\ view.C = 254
           \/ /\ ins.data = <<131, 128, 1, 254>>
              /\ view.A = 1 /\ view.Bx = 130051
           \/ /\ ins.data = <<129, 128, 1, 254>>
              /\ view.A = 1 /\ view.sBx = 64516
           \/ /\ ins.data = <<210, 128, 1, 254>>
              /\ view.Ax = 33293057
           \/ /\ ins.data = <<184, 255, 255, 255>>
              /\ view.sJ = 16777216

-----------------------------------------------------------------------------
(* luaparse.py: one constant of read_constants, for every tag byte *)

\* what follows the tag byte: eight bytes, which are also a string of one
\* character behind its size
ConstPayload == <<130, 65, 0, 0, 0, 0, 0, 0>>

ConstTags == 0..255

InitConst ==
    /\ LuacOff
    /\ cmp = NoCmp /\ disp = NoDisp /\ jit = NoJit /\ ins = NoIns
    /\ \E t \in ConstTags :
          fn = [pc |-> "new", op |-> "read_constant", data |-> <<t>> \o ConstPayload]

\* one turn of the loop of read_constants
ReadConstant ==
    /\ fn.pc = "new" /\ fn.op = "read_constant"
    /\ LET r == read_constant(fn.data, 0)
       IN  fn' = [pc |-> "done", op |-> fn.op, data |-> fn.data, result |-> r]
    /\ UNCHANGED << luacVars, cmp, disp, jit, ins >>

NextConst == ReadConstant

SpecConst == InitConst /\ [][NextConst]_vars

(* Properties of read_constants *)

\* the constant tags Lua 5.4 defines
DefinedConstantTags == { VNIL, VFALSE, VTRUE, VNUMFLT, VNUMINT, VSHRSTR, VLNGSTR }

\* C11: an undefined tag is an error.  Reading a constant whose tag byte is
\* not one of the seven defined tags raises the unknown-constant-type error;
\* it is never decoded as nil, a boolean, a number or a string.
UnknownConstantTagRaises ==
    (fn.pc = "done" /\ fn.op = "read_constant" /\ fn.data[1] \notin DefinedConstantTags)
    => /\ ~fn.result.ok
       /\ fn.result.err = "ValueError: constant type"

-----------------------------------------------------------------------------
(* luaparse.py: check_header, luajitparse.py: read_header, on headers that *)
(* differ from the expected one field by field                             *)

\* a Lua 5.4 header of the seven fields given
HeaderOf(signature, version, format, luac_data, sizes, luac_int, luac_num) ==
    signature \o <<version, format>> \o luac_data \o sizes \o luac_int \o luac_num

\* each field as the format expects it, and one other value of it
HeaderFiles ==
    { HeaderOf(signature, version, format, luac_data, sizes, luac_int, luac_num) :
        signature \in { LUA_SIGNATURE, <<27, 76, 117, 98>> },
        version \in { LUAC_VERSION, 83 },
        format \in { LUAC_FORMAT, 1 },
        luac_data \in { LUAC_DATA, <<25, 147, 13, 10, 26, 11>> },
        sizes \in { <<4, 8, 8>>, <<4, 4, 8>> },
        luac_int \in { LUAC_INT, <<121, 86, 0, 0, 0, 0, 0, 0>> },
        luac_num \in { LUAC_NUM, <<0, 0, 0, 0, 0, 40, 119, 65>> } }

\* LuaJIT headers of stripped dumps: the signature and one other, and the
\* version bytes 0 .. 4
JitHeaderFiles ==
    { signature \o <<version, BCDUMP_F_STRIP>> :
        signature \in { LUAJIT_SIGNATURE, <<27, 76, 75>> }, version \in 0..4 }

InitHeader ==
    /\ LuacOff
    /\ cmp = NoCmp /\ disp = NoDisp /\ jit = NoJit /\ ins = NoIns
    /\ \/ \E h \in HeaderFiles : fn = [pc |-> "new", op |-> "check_header", data |-> h]
       \/ \E h \in JitHeaderFiles : fn = [pc |-> "new", op |-> "read_header", data |-> h]

\* LuacParser.check_header
CheckHeader ==
    /\ fn.pc = "new" /\ fn.op = "check_header"
    /\ LET r == check_header(fn.data)
       IN  fn' = [pc |-> "done", op |-> fn.op, data |-> fn.data, result |-> r]
    /\ UNCHANGED << luacVars, cmp, disp, jit, ins >>

\* LuaJITParser.read_header
ReadHeader ==
    /\ fn.pc = "new" /\ fn.op = "read_header"
    /\ LET r == LuaJITParser_read_header(fn.data)
       IN  fn' = [pc |-> "done", op |-> fn.op, data |-> fn.data, result |-> r]
    /\ UNCHANGED << luacVars, cmp, disp, jit, ins >>

NextHeader == CheckHeader \/ ReadHeader

SpecHeader == InitHeader /\ [][NextHeader]_vars

(* Properties of the header checks *)

\* the fields of a Lua 5.4 header the claim names: bytes 0-3 the signature,
\* 4 the version, 6-11 the checksum bytes, 15-22 and 23-30 the test values
SignatureOf(h) == Slice(h, 0, 4)
ChecksumOf(h) == Slice(h, 6, 12)
TestIntOf(h) == Slice(h, 15, 23)
TestNumOf(h) == Slice(h, 23, 31)

\* C12: header validation.  A header whose signature, version byte,
\* checksum bytes or test integer or float differs from the expected value
\* is rejected: the signature first, then the version, then the test
\* values; for LuaJIT the signature and the version byte.
HeaderMismatchRejected ==
    /\ (fn.pc = "done" /\ fn.op = "check_header") =>
          /\ SignatureOf(fn.data) # LUA_SIGNATURE
                => ~fn.result.ok /\ fn.result.err = "ValueError: signature"
          /\ (SignatureOf(fn.data) = LUA_SIGNATURE /\ fn.data[5] # LUAC_VERSION)
                => ~fn.result.ok /\ fn.result.err = "ValueError: version"
          /\ (\/ ChecksumOf(fn.data) # LUAC_DATA
              \/ TestIntOf(fn.data) # LUAC_INT
              \/ TestNumOf(fn.data) # LUAC_NUM)
                => ~fn.result.ok
    /\ (/\ fn.pc = "done" /\ fn.op = "read_header"
        /\ (Slice(fn.data, 0, 3) # LUAJIT_SIGNATURE \/ fn.data[4] \notin {1, 2}))
          => ~fn.result.ok

-----------------------------------------------------------------------------
(* luaparse.py: read_code and read_string_with_raw on vectors of a length  *)
(* above and below a maximum the caller would like enforced.  Neither the  *)
(* constructor nor the readers take such a maximum.                        *)

MaxVector == 3
MaxMaximum == 3

\* a size prefix, then as many instruction words
CodeVectors ==
    { Sz(Len(code)) \o Flatten(code) :
        code \in SeqsUpTo({<<5, 0, 0, 0>>, <<9, 1, 0, 0>>}, MaxVector) }

\* a size prefix of the length plus one, then as many characters; the absent
\* string; and the size 2^20 + 1 with nothing behind it
StringVectors ==
    { Sz(Len(str) + 1) \o str : str \in SeqsUpTo({65, 66}, MaxVector) }
    \cup { Sz(0), <<64, 0, 129>> }

InitLength ==
    /\ LuacOff
    /\ cmp = NoCmp /\ disp = NoDisp /\ jit = NoJit /\ ins = NoIns
    /\ \E maximum \in 0..MaxMaximum :
          \/ \E v \in CodeVectors :
                fn = [pc |-> "new", op |-> "read_code", data |-> v,
                      maximum |-> maximum]
          \/ \E v \in StringVectors :
                fn = [pc |-> "new", op |-> "read_string_with_raw", data |-> v,
                      maximum |-> maximum]

\* LuacParser.read_code
ReadCode ==
    /\ fn.pc = "new" /\ fn.op = "read_code"
    /\ LET r == read_code(fn.data, 0)
       IN  fn' = [fn EXCEPT !.pc = "done"] @@ [result |-> r]
    /\ UNCHANGED << luacVars, cmp, disp, jit, ins >>

\* LuacParser.read_string_with_raw
ReadStringWithRaw ==
    /\ fn.pc = "new" /\ fn.op = "read_string_with_raw"
    /\ LET r == read_string_with_raw(fn.data, 0)
       IN  fn' = [fn EXCEPT !.pc = "done"] @@ [result |-> r]
    /\ UNCHANGED << luacVars, cmp, disp, jit, ins >>

NextLength == ReadCode \/ ReadStringWithRaw

SpecLength == InitLength /\ [][NextLength]_vars

(* Properties of the lengths read *)

\* the length or count the vector announces: the instruction count of a
\* code vector, the size of a string less the one the format adds
AnnouncedLength(op, size) ==
    IF op = "read_code" THEN size ELSE IF size = 0 THEN 0 ELSE size - 1

LengthAboveMaximum(op, maximum, sz) ==
    sz.ok /\ AnnouncedLength(op, sz.val) > maximum

\* C13: lengths are capped.  A vector whose announced length is above the
\* maximum is not read: the call fails.
LengthsAreCapped ==
    (fn.pc = "done" /\ fn.op \in {"read_code", "read_string_with_raw"})
    => LET sz == read_size_with_raw(fn.data, 0)
       IN  LengthAboveMaximum(fn.op, fn.maximum, sz) => ~fn.result.ok

-----------------------------------------------------------------------------
(* luaparse.py: read_size and _write_size on integers of any width.  A     *)
(* Python integer is held as its bits, lowest first, the highest one set;  *)
(* zero is the empty sequence.                                             *)

\* 8 * 8 in limit = (1 << (8 * 8 - 7))
SIZE_T_BITS == 64

RECURSIVE BitsNormal(_)
BitsNormal(v) ==
    IF v = <<>> THEN <<>>
    ELSE IF v[Len(v)] = 1 THEN v ELSE BitsNormal(SubSeq(v, 1, Len(v) - 1))

\* the seven bits of a group, lowest first
BitsOfGroup(g) == [i \in 1..7 |-> (g \div Pow2(i - 1)) % 2]

\* value & 0x7F
BitsAnd7F(v) ==
    LET bit(i) == IF i <= Len(v) THEN v[i] ELSE 0
    IN  bit(1) + 2 * bit(2) + 4 * bit(3) + 8 * bit(4)
        + 16 * bit(5) + 32 * bit(6) + 64 * bit(7)

\* value >> 7
BitsShr7(v) == IF Len(v) <= 7 THEN <<>> ELSE SubSeq(v, 8, Len(v))

\* (x << 7) | (b & 0x7f)
BitsShl7Or(x, b) == BitsNormal(BitsOfGroup(b % 128) \o x)

\* x >= limit, with limit = 1 << (8 * 8 - 7)
BitsAtLimit(x) == Len(x) > SIZE_T_BITS - 7

\* read_size with the groups taken lowest first
RECURSIVE read_size_low_first_loop(_, _, _)
read_size_low_first_loop(data, pos, x) ==
    AndThen(read_byte_with_raw(data, pos), LAMBDA b :
        IF BitsAtLimit(x) THEN Raise("ValueError: overflow", b.pos)
        ELSE IF b.val >= 128 THEN Ok(b.pos, BitsNormal(x \o BitsOfGroup(b.val % 128)), <<>>)
        ELSE read_size_low_first_loop(data, b.pos, x \o BitsOfGroup(b.val % 128)))

read_size_low_first(data, pos) == read_size_low_first_loop(data, pos, <<>>)

\* read_size: self.read_byte(), the overflow test, then the shift
RECURSIVE read_size_bits_loop(_, _, _)
read_size_bits_loop(data, pos, x) ==
    AndThen(read_byte_with_raw(data, pos), LAMBDA b :
        IF BitsAtLimit(x) THEN Raise("ValueError: overflow", b.pos)
        ELSE IF b.val >= 128 THEN Ok(b.pos, BitsShl7Or(x, b.val), <<>>)
        ELSE read_size_bits_loop(data, b.pos, BitsShl7Or(x, b.val)))

read_size(data, pos) == read_size_bits_loop(data, pos, <<>>)

\* bytes_list of _write_size as the loop builds it, lowest group first
RECURSIVE size_groups_bits_unreversed(_)
size_groups_bits_unreversed(value) ==
    IF value = <<>> THEN <<>>
    ELSE <<BitsAnd7F(value)>> \o size_groups_bits_unreversed(BitsShr7(value))

\* bytes_list of _write_size, reversed
RECURSIVE size_groups_bits(_)
size_groups_bits(value) ==
    IF value = <<>> THEN <<>>
    ELSE Append(size_groups_bits(BitsShr7(value)), BitsAnd7F(value))

\* _write_size on such an integer
write_size_bits(value) ==
    IF value = <<>> THEN <<128>>
    ELSE LET bytes_list == size_groups_bits(value)
             n == Len(bytes_list)
         IN  [i \in 1..n |-> IF i = n THEN bytes_list[i] + 128 ELSE bytes_list[i]]

\* the integer with the bits of S set
BitsWithSet(S) ==
    [i \in 1..(CHOOSE m \in S : \A k \in S : k <= m) |-> IF i \in S THEN 1 ELSE 0]

\* the values written and read back: 2^n - 1 for every width n up to 64
\* (zero and 2^64 - 1 among them), and every value with one or two bits set
SizeValues ==
    { [i \in 1..n |-> 1] : n \in 0..SIZE_T_BITS }
    \cup { BitsWithSet({a, b}) : a \in 1..SIZE_T_BITS, b \in 1..SIZE_T_BITS }

\* the buffers read: up to MaxGroups bytes with the high bit clear, then a
\* byte with the high bit set, or the end of the buffer
MaxGroups == 11

SizeGroups ==
    { <<>> } \cup
    { <<g>> \o rest : g \in {0, 1, 2, 127}, rest \in SeqsUpTo({0, 127}, MaxGroups - 1) }

SizeBuffers == { groups \o last : groups \in SizeGroups, last \in { <<>>, <<128>>, <<255>> } }

InitVarint ==
    /\ LuacOff
    /\ cmp = NoCmp /\ disp = NoDisp /\ jit = NoJit /\ ins = NoIns
    /\ \/ \E v \in SizeValues : fn = [pc |-> "new", op |-> "_write_size", value |-> v]
       \/ \E b \in SizeBuffers : fn = [pc |-> "new", op |-> "read_size", data |-> b]

\* _write_size(value) into a file, then read_size on that file
WriteSizeReadSize ==
    /\ fn.pc = "new" /\ fn.op = "_write_size"
    /\ LET written == write_size_bits(fn.value)
       IN  fn' = [pc |-> "done", op |-> fn.op, value |-> fn.value,
                  written |-> written, result |-> read_size(written, 0)]
    /\ UNCHANGED << luacVars, cmp, disp, jit, ins >>

\* read_size on a buffer
ReadSize ==
    /\ fn.pc = "new" /\ fn.op = "read_size"
    /\ LET r == read_size(fn.data, 0)
       IN  fn' = [pc |-> "done", op |-> fn.op, data |-> fn.data, result |-> r]
    /\ UNCHANGED << luacVars, cmp, disp, jit, ins >>

NextVarint == WriteSizeReadSize \/ ReadSize

SpecVarint == InitVarint /\ [][NextVarint]_vars

(* Properties of read_size and _write_size *)

\* C14: varint round trip.  For every value of up to 64 bits, read_size on
\* the bytes _write_size wrote returns the value, and reads all the bytes.
VarintRoundTrip ==
    (fn.pc = "done" /\ fn.op = "_write_size")
    => /\ fn.result.ok
       /\ fn.result.val = fn.value
       /\ fn.result.pos = Len(fn.written)

\* 2^64 - 1 was written as ten bytes and read back
VarintRoundTripWitness ==
    /\ fn.pc = "done" /\ fn.op = "_write_size"
    /\ fn.value = [i \in 1..SIZE_T_BITS |-> 1]
    /\ fn.written = <<1, 127, 127, 127, 127, 127, 127, 127, 127, 255>>
    /\ fn.result.ok /\ fn.result.val = fn.value

\* the position of the first byte with the high bit set, 0 when there is
\* none
Terminator(data) ==
    IF \E i \in 1..Len(data) : data[i] >= 128
    THEN CHOOSE i \in 1..Len(data) : data[i] >= 128 /\ \A j \in 1..(i - 1) : data[j] < 128
    ELSE 0

\* the low seven bits of b1 .. bn as one number, b1 the highest group
GroupsValue(data, n) ==
    BitsNormal(Flatten([i \in 1..n |-> BitsOfGroup(data[n + 1 - i] % 128)]))

SizeReadAs(data, n, r) ==
    IF n = 0 THEN ~r.ok
    ELSE IF Len(GroupsValue(data, n)) <= SIZE_T_BITS
    THEN r.ok /\ r.val = GroupsValue(data, n) /\ r.pos = n
    ELSE ~r.ok /\ r.err = "ValueError: overflow"

SizeTruncated(data, r) ==
    (Terminator(data) = 0 /\ Len(GroupsValue(data, Len(data))) <= SIZE_T_BITS - 7)
    => ~r.ok /\ r.err = "struct.error"

\* C20: read_size.  On bytes b1 .. bn of which only bn has the high bit set
\* the value is the groups of seven bits taken highest first, when it fits
\* 64 bits, and the overflow error when it does not; on a buffer that ends
\* before a byte with the high bit set the call fails, with the error of
\* the short read unless the groups read already overflow.
ReadSizeValue ==
    (fn.pc = "done" /\ fn.op = "read_size")
    => /\ SizeReadAs(fn.data, Terminator(fn.data), fn.result)
       /\ SizeTruncated(fn.data, fn.result)

\* the three cases: 01 7F FF read as 2^15 - 1, a buffer cut off after two
\* groups, and ten bytes that overflow
ReadSizeValueWitness ==
    /\ fn.pc = "done" /\ fn.op = "read_size"
    /\ \/ /\ fn.data = <<1, 127, 255>>
          /\ fn.result.ok /\ fn.result.val = [i \in 1..15 |-> 1]
       \/ /\ fn.data = <<1, 127>>
          /\ ~fn.result.ok /\ fn.result.err = "struct.error"
       \/ /\ fn.data = <<2, 0, 0, 0, 0, 0, 0, 0, 0, 128>>
          /\ ~fn.result.ok /\ fn.result.err = "ValueError: overflow"

-----------------------------------------------------------------------------
(* The loops of the readers, one turn at a time: the while loops of        *)
(* read_size_with_raw, read_uleb128, read_uleb128_33, of the variable      *)
(* names of read_proto and of LuaJITParser.parse, and the for loop of      *)
(* read_code.  fn holds the position in the data and the loop's variables. *)

\* the loop is left: the call returned, or raised
Left(s, outcome, pos) == [s EXCEPT !.pc = "done", !.outcome = outcome, !.pos = pos]

\* the call is at the head of its loop
AtLoop(op, data, pos, acc, n, flags) ==
    [pc |-> "loop", op |-> op, data |-> data, pos |-> pos, acc |-> acc,
     shift |-> 0, i |-> 0, n |-> n, flags |-> flags, outcome |-> ""]

\* one turn of a loop of read_size_with_raw that, at the end of the data,
\* goes round again for the byte that is not there
read_size_with_raw_turn_waiting(s) ==
    LET byte_data == FileRead(s.data, s.pos, 1)
    IN  IF Len(byte_data) # 1 THEN s
        ELSE IF BitsAtLimit(s.acc) THEN Left(s, "raised", s.pos + 1)
        ELSE IF byte_data[1] >= 128
        THEN Left([s EXCEPT !.acc = BitsShl7Or(s.acc, byte_data[1])], "returned", s.pos + 1)
        ELSE [s EXCEPT !.pos = s.pos + 1, !.acc = BitsShl7Or(s.acc, byte_data[1])]

\* one turn of while True of read_size_with_raw
read_size_with_raw_turn(s) ==
    LET byte_data == FileRead(s.data, s.pos, 1)
    IN  IF Len(byte_data) # 1 THEN Left(s, "raised", s.pos)
        ELSE IF BitsAtLimit(s.acc) THEN Left(s, "raised", s.pos + 1)
        ELSE IF byte_data[1] >= 128
        THEN Left([s EXCEPT !.acc = BitsShl7Or(s.acc, byte_data[1])], "returned", s.pos + 1)
        ELSE [s EXCEPT !.pos = s.pos + 1, !.acc = BitsShl7Or(s.acc, byte_data[1])]

\* result |= (byte & 0x7F) << shift, result held as its bits up to shift
OrGroupAtShift(s) == [s EXCEPT !.acc = s.acc \o BitsOfGroup(s.data[s.pos + 1] % 128)]

\* one turn of while True of read_uleb128
read_uleb128_turn(s) ==
    IF s.pos >= Len(s.data) THEN Left(s, "raised", s.pos)
    ELSE IF s.data[s.pos + 1] < 128 THEN Left(OrGroupAtShift(s), "returned", s.pos + 1)
    ELSE IF s.shift + 7 >= 35 THEN Left(OrGroupAtShift(s), "raised", s.pos + 1)
    ELSE [OrGroupAtShift(s) EXCEPT !.pos = s.pos + 1, !.shift = s.shift + 7]

\* what read_uleb128_33 does after its loop: hi = self.read_uleb128() when
\* is_num
read_uleb128_33_hi(s, pos) ==
    IF s.data[1] % 2 = 0 THEN Left(s, "returned", pos)
    ELSE IF LuaJITParser_read_uleb128(s.data, pos).ok
    THEN Left(s, "returned", LuaJITParser_read_uleb128(s.data, pos).pos)
    ELSE Left(s, "raised", LuaJITParser_read_uleb128(s.data, pos).pos)

\* one turn of while True of read_uleb128_33
read_uleb128_33_turn(s) ==
    IF s.pos >= Len(s.data) THEN Left(s, "raised", s.pos)
    ELSE IF s.data[s.pos + 1] < 128 \/ s.shift + 7 >= 32
    THEN read_uleb128_33_hi(OrGroupAtShift(s), s.pos + 1)
    ELSE [OrGroupAtShift(s) EXCEPT !.pos = s.pos + 1, !.shift = s.shift + 7]

\* one variable of the loop of read_proto, after its type byte
read_variable(data, var_type) ==
    AndThen(read_varname(data, var_type.pos, var_type.val), LAMBDA name :
    AndThen(LuaJITParser_read_uleb128(data, name.pos), LAMBDA start_addr :
        LuaJITParser_read_uleb128(data, start_addr.pos)))

VariableRead(s, r) ==
    IF r.ok THEN [s EXCEPT !.pos = r.pos, !.i = s.i + 1] ELSE Left(s, "raised", r.pos)

\* one turn of while self.pos < self.size of the variable names
varnames_turn(s) ==
    IF s.pos >= Len(s.data) THEN Left(s, "returned", s.pos)
    ELSE IF s.data[s.pos + 1] = VARNAME_END THEN Left(s, "returned", s.pos + 1)
    ELSE LET r == read_variable(s.data, LuaJITParser_read_byte(s.data, s.pos))
         IN  VariableRead(s, r)

ProtoRead(s, proto) ==
    IF ~proto.ok THEN Left(s, "returned", proto.pos)
    ELSE IF proto.val.size = 0 THEN Left(s, "returned", proto.pos)
    ELSE [s EXCEPT !.pos = proto.pos, !.i = s.i + 1]

\* one turn of while self.pos < self.size of LuaJITParser.parse
parse_turn(s) ==
    IF s.pos >= Len(s.data) THEN Left(s, "returned", s.pos)
    ELSE LET proto == LuaJITParser_read_proto(s.data, s.pos, s.flags)
         IN  ProtoRead(s, proto)

\* one turn of for i in range(n) of read_code
read_code_turn(s) ==
    IF s.i >= s.n THEN Left(s, "returned", s.pos)
    ELSE IF read_inst(s.data, s.pos).ok
    THEN [s EXCEPT !.pos = s.pos + 4, !.i = s.i + 1]
    ELSE Left(s, "raised", s.pos)

\* read_uleb128_33 up to its loop: the first byte gives is_num and six
\* bits of lo, and the loop is entered when more bits follow
read_uleb128_33_enter(s) ==
    IF 0 >= Len(s.data) THEN Left(s, "raised", 0)
    ELSE IF s.data[1] \div 2 > 63
    THEN [s EXCEPT !.pc = "loop", !.pos = 1, !.shift = 6,
                   !.acc = [k \in 1..6 |-> (s.data[1] \div Pow2(k)) % 2]]
    ELSE read_uleb128_33_hi([s EXCEPT !.acc = [k \in 1..6 |-> (s.data[1] \div Pow2(k)) % 2]], 1)

\* LuaJITParser.parse up to its loop: read_header
parse_enter(s, header) ==
    IF header.ok
    THEN [s EXCEPT !.pc = "loop", !.pos = header.pos, !.flags = header.val.flags]
    ELSE Left(s, "raised", header.pos)

\* read_code up to its loop: the count
read_code_enter(s, n) ==
    IF n.ok THEN [s EXCEPT !.pc = "loop", !.pos = n.pos, !.n = n.val]
    ELSE Left(s, "raised", n.pos)

\* the bytes given to the loops of the varints and of the variable names
MaxLoopBytes == 4

VarintLoopData == SeqsUpTo({0, 1, 128, 129}, MaxLoopBytes)

\* VARNAME_END, a variable of type 1, a name of one character, and a byte
\* with the high bit set
VarnamesLoopData == SeqsUpTo({VARNAME_END, 1, 8, 128}, MaxLoopBytes)

\* code vectors whole and cut short, and with a count above the words
CodeLoopData ==
    { Slice(v, 0, k) : v \in CodeVectors, k \in 0..(1 + 4 * MaxVector) }
    \cup { <<count>> \o v : count \in {130, 131}, v \in {<<>>, <<5, 0, 0, 0>>} }

\* a prototype of a stripped dump with nothing in it: flags, numparams,
\* framesize, numuv, numkgc, numkn and numbc are 0
JitProtoNone == JitSized(<<0, 0, 0, 0, 0, 0, 0>>)

\* stripped dumps of no, one and two such prototypes, ended by the size 0,
\* by the end of the data, or by a size cut short
JitLoopFiles ==
    { JitStripped(LUAJIT_VERSION) \o protos \o last :
        protos \in { <<>>, JitProtoNone, JitProtoNone \o JitProtoNone },
        last \in { <<>>, <<0>>, <<128>> } }

LoopCalls ==
    ({"read_size_with_raw", "read_uleb128", "read_uleb128_33"} \X VarintLoopData)
    \cup ({"varnames"} \X VarnamesLoopData)
    \cup ({"parse"} \X JitLoopFiles)
    \cup ({"read_code"} \X CodeLoopData)

InitLoops ==
    /\ LuacOff
    /\ cmp = NoCmp /\ disp = NoDisp /\ jit = NoJit /\ ins = NoIns
    /\ \E c \in LoopCalls :
          fn = [AtLoop(c[1], c[2], 0, <<>>, 0, 0) EXCEPT !.pc = "new"]

\* the call, up to the head of its loop
Enter ==
    /\ fn.pc = "new"
    /\ fn' = CASE fn.op = "read_uleb128_33" -> read_uleb128_33_enter(fn)
               [] fn.op = "parse" ->
                    LET header == LuaJITParser_read_header(fn.data)
                    IN  parse_enter(fn, header)
               [] fn.op = "read_code" ->
                    LET n == read_size_with_raw(fn.data, 0)
                    IN  read_code_enter(fn, n)
               [] OTHER -> [fn EXCEPT !.pc = "loop"]
    /\ UNCHANGED << luacVars, cmp, disp, jit, ins >>

ReadSizeWithRawTurn ==
    /\ fn.pc = "loop" /\ fn.op = "read_size_with_raw"
    /\ fn' = read_size_with_raw_turn(fn)
    /\ UNCHANGED << luacVars, cmp, disp, jit, ins >>

ReadUleb128Turn ==
    /\ fn.pc = "loop" /\ fn.op = "read_uleb128"
    /\ fn' = read_uleb128_turn(fn)
    /\ UNCHANGED << luacVars, cmp, disp, jit, ins >>

ReadUleb128_33Turn ==
    /\ fn.pc = "loop" /\ fn.op = "read_uleb128_33"
    /\ fn' = read_uleb128_33_turn(fn)
    /\ UNCHANGED << luacVars, cmp, disp, jit, ins >>

VarnamesTurn ==
    /\ fn.pc = "loop" /\ fn.op = "varnames"
    /\ fn' = varnames_turn(fn)
    /\ UNCHANGED << luacVars, cmp, disp, jit, ins >>

ParseTurn ==
    /\ fn.pc = "loop" /\ fn.op = "parse"
    /\ fn' = parse_turn(fn)
    /\ UNCHANGED << luacVars, cmp, disp, jit, ins >>

ReadCodeTurn ==
    /\ fn.pc = "loop" /\ fn.op = "read_code"
    /\ fn' = read_code_turn(fn)
    /\ UNCHANGED << luacVars, cmp, disp, jit, ins >>

NextLoops ==
    \/ Enter
    \/ ReadSizeWithRawTurn
    \/ ReadUleb128Turn
    \/ ReadUleb128_33Turn
    \/ VarnamesTurn
    \/ ParseTurn
    \/ ReadCodeTurn

\* the program runs on: a call that can take a step takes it
SpecLoops == InitLoops /\ [][NextLoops]_vars /\ WF_vars(NextLoops)

(* Properties of the loops *)

\* what a loop has left: the bytes not yet read, and for the loop of
\* read_code the turns of its count
LoopMeasure(s) == IF s.op = "read_code" THEN s.n - s.i ELSE Len(s.data) - s.pos

LoopProgress ==
    (fn.pc = "loop" /\ fn'.pc = "loop")
    => /\ LoopMeasure(fn') < LoopMeasure(fn)
       /\ LoopMeasure(fn') >= 0

\* C15: bounded termination.  Every call ends, returning or raising: each
\* turn of a while loop reads at least one byte and stays within the data,
\* each turn of the for loop uses one of the count it read.
BoundedTermination == [][LoopProgress]_fn /\ <>(fn.pc = "done")

\* a loop that took three turns and then returned
BoundedTerminationWitness ==
    /\ fn.pc = "done" /\ fn.outcome = "returned"
    /\ fn.op = "read_uleb128" /\ fn.data = <<128, 129, 1>> /\ fn.pos = 3

-----------------------------------------------------------------------------
(* luaparse.py: encrypt_code_data and decrypt_code_data on segments of     *)
(* every length up to MaxSegment, under keys of up to MaxKey bytes         *)

MaxSegment == 6
MaxKey == 3

Segments == SeqsUpTo({0, 170}, MaxSegment)
SegmentKeys == SeqsUpTo({1, 255}, MaxKey) \ { <<>> }

InitApply ==
    /\ LuacOff
    /\ cmp = NoCmp /\ disp = NoDisp /\ jit = NoJit /\ ins = NoIns
    /\ \E op \in {"encrypt_code_data", "decrypt_code_data"},
          key \in SegmentKeys, segment \in Segments :
          fn = [pc |-> "new", op |-> op, key |-> key, data |-> segment]

EncryptCodeData ==
    /\ fn.pc = "new" /\ fn.op = "encrypt_code_data"
    /\ LET r == encrypt_code_data(Some(fn.key), fn.data)
       IN  fn' = [fn EXCEPT !.pc = "done"] @@ [result |-> r]
    /\ UNCHANGED << luacVars, cmp, disp, jit, ins >>

DecryptCodeData ==
    /\ fn.pc = "new" /\ fn.op = "decrypt_code_data"
    /\ LET r == decrypt_code_data(Some(fn.key), fn.data)
       IN  fn' = [fn EXCEPT !.pc = "done"] @@ [result |-> r]
    /\ UNCHANGED << luacVars, cmp, disp, jit, ins >>

NextApply == EncryptCodeData \/ DecryptCodeData

SpecApply == InitApply /\ [][NextApply]_vars

(* Properties of the code transforms *)

-----------------------------------------------------------------------------
(* luaparse.py: _extract_all_instructions on trees of up to three levels *)

MaxFlattenKids == 2

\* the children of the root: two leaves, a child with a child of its own,
\* and a child with no instruction and a child of its own; every node has
\* words of its own
FlattenKids ==
    { GenLeaf(SrcAbsent, << <<2, 0, 0, 0>> >>),
      GenLeaf(SrcAbsent, << <<3, 0, 0, 0>>, <<4, 0, 0, 0>> >>),
      GenProto(SrcAbsent, Line0, << <<5, 0, 0, 0>> >>, <<>>, <<>>,
               <<GenLeaf(SrcAbsent, << <<6, 0, 0, 0>> >>)>>, DbgEmpty),
      GenProto(SrcAbsent, Line0, <<>>, <<>>, <<>>,
               <<GenLeaf(SrcAbsent, << <<7, 0, 0, 0>> >>)>>, DbgEmpty) }

FlattenFiles ==
    { GenFile(StdHeader, 0, GenProto(SrcNamed, Line0, code, <<>>, <<>>, kids, DbgEmpty)) :
        code \in { <<>>, << <<1, 0, 0, 0>> >>, << <<1, 0, 0, 0>>, <<8, 0, 0, 0>> >> },
        kids \in SeqsUpTo(FlattenKids, MaxFlattenKids) }

InitFlatten ==
    /\ LuacOff
    /\ cmp = NoCmp /\ disp = NoDisp /\ jit = NoJit /\ ins = NoIns
    /\ \E f \in FlattenFiles :
          fn = [pc |-> "new", op |-> "_extract_all_instructions", data |-> f]

Extracted(s, parser) ==
    [pc |-> "done", op |-> s.op, data |-> s.data, tree |-> parser.val.main_proto,
     result |-> _extract_all_instructions(parser.val.main_proto)]

\* parser.parse(), then _extract_all_instructions(parser.main_proto), as
\* compare_opcodes does for each of its files
ExtractAllInstructions ==
    /\ fn.pc = "new" /\ fn.op = "_extract_all_instructions"
    /\ LET parser == parse(fn.data)
       IN  fn' = Extracted(fn, parser)
    /\ UNCHANGED << luacVars, cmp, disp, jit, ins >>

NextFlatten == ExtractAllInstructions

SpecFlatten == InitFlatten /\ [][NextFlatten]_vars

(* Properties of _extract_all_instructions *)

\* the node of a tree at a path of child indices, and whether there is one
RECURSIVE NodeAt(_, _)
NodeAt(proto, path) ==
    IF path = <<>> THEN proto ELSE NodeAt(proto.protos[path[1]], Tail(path))

RECURSIVE HasNode(_, _)
HasNode(proto, path) ==
    \/ path = <<>>
    \/ /\ path[1] <= Len(proto.protos)
       /\ HasNode(proto.protos[path[1]], Tail(path))

\* the paths of the nodes of a tree of up to three levels
PathsOf(proto) ==
    { path \in SeqsUpTo(1..MaxFlattenKids, 2) : HasNode(proto, path) }

\* q comes before p in preorder: q is an ancestor of p, or q turns to an
\* earlier child where the two part
PathBefore(q, p) ==
    \/ Len(q) < Len(p) /\ SubSeq(p, 1, Len(q)) = q
    \/ \E i \in 1..Min(Len(q), Len(p)) :
          /\ SubSeq(q, 1, i - 1) = SubSeq(p, 1, i - 1)
          /\ q[i] < p[i]

RECURSIVE SumOfLens(_, _)
SumOfLens(proto, paths) ==
    IF paths = {} THEN 0
    ELSE LET path == CHOOSE x \in paths : TRUE
         IN  Len(NodeAt(proto, path).code) + SumOfLens(proto, paths \ {path})

\* the number of instructions of the nodes before the node at a path
OffsetOf(proto, path) ==
    SumOfLens(proto, { q \in PathsOf(proto) : PathBefore(q, path) })

\* C18: flattening is preorder.  The flattened sequence has as many words as
\* the nodes of the tree have instructions, and instruction a of a node is
\* at the place after the instructions of the node's ancestors and of the
\* nodes under earlier children.
FlatteningIsPreorder ==
    (fn.pc = "done" /\ fn.op = "_extract_all_instructions")
    => /\ Len(fn.result) = SumOfLens(fn.tree, PathsOf(fn.tree))
       /\ \A path \in PathsOf(fn.tree) :
            \A a \in 1..Len(NodeAt(fn.tree, path).code) :
                fn.result[OffsetOf(fn.tree, path) + a] = NodeAt(fn.tree, path).code[a]

\* a root with two instructions, a child with a child of its own, then a
\* leaf with two instructions
FlatteningIsPreorderWitness ==
    /\ fn.pc = "done" /\ fn.op = "_extract_all_instructions"
    /\ Len(fn.tree.protos) = 2 /\ Len(fn.tree.protos[1].protos) = 1
    /\ fn.result = << <<1, 0, 0, 0>>, <<8, 0, 0, 0>>, <<5, 0, 0, 0>>, <<6, 0, 0, 0>>,
                      <<3, 0, 0, 0>>, <<4, 0, 0, 0>> >>

-----------------------------------------------------------------------------
(* luajitparse.py: read_uleb128, read_uleb128_33 and the numeric constants *)
(* of read_proto, with every number held as its bits, lowest first        *)

\* read_uleb128 with each later group below the ones before it
RECURSIVE read_uleb128_high_first_loop(_, _, _, _)
read_uleb128_high_first_loop(data, pos, result, shift) ==
    IF pos >= Len(data) THEN Raise("Exception: ULEB128 out of bounds", pos)
    ELSE IF data[pos + 1] < 128
    THEN Ok(pos + 1, BitsNormal(BitsOfGroup(data[pos + 1] % 128) \o result), <<>>)
    ELSE IF shift + 7 >= 35 THEN Raise("Exception: ULEB128 too long", pos + 1)
    ELSE read_uleb128_high_first_loop(data, pos + 1,
                                      BitsOfGroup(data[pos + 1] % 128) \o result, shift + 7)

read_uleb128_high_first(data, pos) == read_uleb128_high_first_loop(data, pos, <<>>, 0)

\* while True of read_uleb128; result holds its shift lowest bits
RECURSIVE read_uleb128_bits_loop(_, _, _, _)
read_uleb128_bits_loop(data, pos, result, shift) ==
    IF pos >= Len(data) THEN Raise("Exception: ULEB128 out of bounds", pos)
    ELSE IF data[pos + 1] < 128
    THEN Ok(pos + 1, BitsNormal(result \o BitsOfGroup(data[pos + 1] % 128)), <<>>)
    ELSE IF shift + 7 >= 35 THEN Raise("Exception: ULEB128 too long", pos + 1)
    ELSE read_uleb128_bits_loop(data, pos + 1,
                                result \o BitsOfGroup(data[pos + 1] % 128), shift + 7)

read_uleb128(data, pos) == read_uleb128_bits_loop(data, pos, <<>>, 0)

\* while True of read_uleb128_33: it ends at a byte without the high bit,
\* or after the byte read at shift 27, whatever its high bit
RECURSIVE read_uleb128_33_bits_loop(_, _, _, _)
read_uleb128_33_bits_loop(data, pos, lo, shift) ==
    IF pos >= Len(data) THEN Raise("Exception: ULEB128_33 out of bounds", pos)
    ELSE IF data[pos + 1] < 128 \/ shift + 7 >= 32
    THEN Ok(pos + 1, BitsNormal(lo \o BitsOfGroup(data[pos + 1] % 128)), <<>>)
    ELSE read_uleb128_33_bits_loop(data, pos + 1,
                                   lo \o BitsOfGroup(data[pos + 1] % 128), shift + 7)

\* lo = (first_byte >> 1) & 0x3F, as six bits
BitsOfFirst(first_byte) == [i \in 1..6 |-> (first_byte \div Pow2(i)) % 2]

\* read_uleb128_33: ((lo, hi), is_num)
read_uleb128_33(data, pos) ==
    IF pos >= Len(data) THEN Raise("Exception: ULEB128_33 out of bounds", pos)
    ELSE
    LET first_byte == data[pos + 1]
        low == IF first_byte \div 2 > 63
               THEN read_uleb128_33_bits_loop(data, pos + 1, BitsOfFirst(first_byte), 6)
               ELSE Ok(pos + 1, BitsNormal(BitsOfFirst(first_byte)), <<>>)
    IN  AndThen(low, LAMBDA lo :
            IF first_byte % 2 # 0
            THEN AndThen(read_uleb128(data, lo.pos), LAMBDA hi :
                    Ok(hi.pos, [lo |-> lo.val, hi |-> hi.val, is_num |-> TRUE], <<>>))
            ELSE Ok(lo.pos, [lo |-> lo.val, hi |-> <<>>, is_num |-> FALSE], <<>>))

\* a - b on bits, for a >= b
RECURSIVE BitsSubLoop(_, _, _, _, _)
BitsSubLoop(a, b, i, borrow, acc) ==
    IF i > Len(a) THEN BitsNormal(acc)
    ELSE LET d == a[i] - (IF i <= Len(b) THEN b[i] ELSE 0) - borrow
         IN  BitsSubLoop(a, b, i + 1, IF d < 0 THEN 1 ELSE 0,
                         Append(acc, IF d < 0 THEN d + 2 ELSE d))

BitsSub(a, b) == BitsSubLoop(a, b, 1, 0, <<>>)

\* a | b on bits
BitsOr(a, b) ==
    BitsNormal([i \in 1..(IF Len(a) > Len(b) THEN Len(a) ELSE Len(b)) |->
                  IF (i <= Len(a) /\ a[i] = 1) \/ (i <= Len(b) /\ b[i] = 1) THEN 1 ELSE 0])

\* 1 << n and x << n
BitsOne(n) == [i \in 1..(n + 1) |-> IF i = n + 1 THEN 1 ELSE 0]
BitsShl(x, n) == IF x = <<>> THEN <<>> ELSE [i \in 1..n |-> 0] \o x

\* if lo >= (1 << 31): lo -= (1 << 32); an integer is its sign and the bits
\* of its absolute value
SignedFrom32(lo) ==
    IF Len(lo) < 32 THEN [neg |-> FALSE, abs |-> lo]
    ELSE IF Len(lo) = 32 THEN [neg |-> TRUE, abs |-> BitsSub(BitsOne(32), lo)]
    ELSE [neg |-> FALSE, abs |-> BitsSub(lo, BitsOne(32))]

\* struct.pack('<Q', num_bits): an error unless num_bits is below 1 << 64;
\* the float is held as its 64-bit pattern
PackQ(num_bits, pos) ==
    IF Len(num_bits) > 64 THEN Raise("struct.error", pos)
    ELSE Ok(pos, <<"float", num_bits>>, <<>>)

\* one turn of the loop over the numeric constants of read_proto
read_constant_num_bits(data, pos) ==
    AndThen(read_uleb128_33(data, pos), LAMBDA k :
        IF k.val.is_num THEN PackQ(BitsOr(k.val.lo, BitsShl(k.val.hi, 32)), k.pos)
        ELSE Ok(k.pos, <<"int", SignedFrom32(k.val.lo)>>, <<>>))

MaxUlebBytes == 6

UlebBytes == {0, 16, 127, 128, 255}

\* the buffers read_uleb128 reads
UlebBuffers == SeqsUpTo(UlebBytes, MaxUlebBytes)

\* the numeric constants read: the bytes of lo, then nothing or the bytes
\* of a hi of 35 bits or of 32 bits
ConstNumBuffers ==
    { lo \o hi : lo \in SeqsUpTo(UlebBytes, MaxUlebBytes - 1),
                 hi \in { <<>>, <<255, 255, 255, 255, 127>>, <<255, 255, 255, 255, 15>> } }

InitUleb ==
    /\ LuacOff
    /\ cmp = NoCmp /\ disp = NoDisp /\ jit = NoJit /\ ins = NoIns
    /\ \/ \E d \in UlebBuffers : fn = [pc |-> "new", op |-> "read_uleb128", data |-> d]
       \/ \E d \in ConstNumBuffers :
             fn = [pc |-> "new", op |-> "read_constant_num", data |-> d]

ReadUleb128 ==
    /\ fn.pc = "new" /\ fn.op = "read_uleb128"
    /\ LET r == read_uleb128(fn.data, 0)
       IN  fn' = [pc |-> "done", op |-> fn.op, data |-> fn.data, result |-> r]
    /\ UNCHANGED << luacVars, cmp, disp, jit, ins >>

ReadConstantNum ==
    /\ fn.pc = "new" /\ fn.op = "read_constant_num"
    /\ LET r == read_constant_num_bits(fn.data, 0)
       IN  fn' = [pc |-> "done", op |-> fn.op, data |-> fn.data, result |-> r,
                  k |-> read_uleb128_33(fn.data, 0)]
    /\ UNCHANGED << luacVars, cmp, disp, jit, ins >>

NextUleb == ReadUleb128 \/ ReadConstantNum

SpecUleb == InitUleb /\ [][NextUleb]_vars

(* Properties of read_uleb128 *)

\* the number of bytes with the continuation bit at the head of a buffer
LeadingContinuations(data) ==
    CHOOSE n \in 0..Len(data) :
        /\ \A i \in 1..n : data[i] >= 128
        /\ n = Len(data) \/ data[n + 1] < 128

\* the sum of (byte & 0x7F) << 7*i over the first n bytes, as its bits
GroupsSum(data, n) ==
    BitsNormal([j \in 1..(7 * n) |->
                  (data[((j - 1) \div 7) + 1] \div Pow2((j - 1) % 7)) % 2])

UlebDecodes(data, r, most) ==
    LET c == LeadingContinuations(data)
    IN  IF c > most THEN ~r.ok /\ r.err = "Exception: ULEB128 too long"
        ELSE IF c = Len(data) THEN ~r.ok /\ r.err = "Exception: ULEB128 out of bounds"
        ELSE r.ok /\ r.val = GroupsSum(data, c + 1) /\ r.pos = c + 1

\* C21 as stated: read_uleb128 returns the sum of the groups up to the
\* first byte without the continuation bit, fails with the overflow error
\* when more than 5 groups carry a continuation bit, and with the
\* out-of-bounds error when the buffer ends before that byte.
Uleb128OverflowPastFive ==
    (fn.pc = "done" /\ fn.op = "read_uleb128") => UlebDecodes(fn.data, fn.result, 5)

\* C21: read_uleb128 reads at most 5 groups.  It returns the sum of the
\* groups up to the first byte without the continuation bit and leaves the
\* cursor behind that byte; it fails with the overflow error as soon as the
\* fifth group carries a continuation bit, whatever follows; it fails with
\* the out-of-bounds error when the buffer ends before that.
Uleb128OverflowAtFive ==
    (fn.pc = "done" /\ fn.op = "read_uleb128") => UlebDecodes(fn.data, fn.result, 4)

\* the three outcomes: five groups of 35 bits in all, a fifth group that
\* carries a continuation bit before a closing byte, and a buffer that ends
\* after four groups
Uleb128OverflowAtFiveWitness ==
    /\ fn.pc = "done" /\ fn.op = "read_uleb128"
    /\ \/ /\ fn.data = <<255, 255, 255, 255, 127>>
          /\ fn.result.ok /\ fn.result.pos = 5 /\ fn.result.val = [i \in 1..35 |-> 1]
       \/ /\ fn.data = <<128, 128, 128, 128, 128, 0>>
          /\ ~fn.result.ok /\ fn.result.err = "Exception: ULEB128 too long"
       \/ /\ fn.data = <<128, 128, 128, 128>>
          /\ ~fn.result.ok /\ fn.result.err = "Exception: ULEB128 out of bounds"

(* Properties of the numeric constants *)

\* C22: the halves of a numeric constant fit 32 bits.  An integer constant
\* is lo taken as a signed number of 32 bits, so it lies in -2^31 .. 2^31 - 1;
\* for a float, lo and hi are each at most 32 bits wide.
NumericConstantFits32 ==
    (fn.pc = "done" /\ fn.op = "read_constant_num" /\ fn.k.ok)
    => IF fn.k.val.is_num
       THEN Len(fn.k.val.lo) <= 32 /\ Len(fn.k.val.hi) <= 32
       ELSE /\ fn.result.ok
            /\ LET n == fn.result.val[2]
               IN  IF n.neg THEN Len(n.abs) <= 31 \/ n.abs = BitsOne(31)
                   ELSE Len(n.abs) <= 31

-----------------------------------------------------------------------------
(* Properties of the sources of a parsed tree *)

\* the paths of the nodes of a parsed tree of up to three levels
TreePaths(proto) ==
    { path \in SeqsUpTo(1..MaxKids, 2) : HasNode(proto, path) }

\* the source name of a node as the stream holds it: absent when its size
\* is 0, else the text behind the size
AbsentInStream(node) == read_size_with_raw(node.ori.source, 0).val = 0

NameInStream(node) ==
    Utf8Decode(Slice(node.ori.source, read_size_with_raw(node.ori.source, 0).pos,
                     Len(node.ori.source)))

\* the name of the nearest node, from the node at a path up to the root,
\* that has a name in the stream; the empty string when there is none
RECURSIVE NearestSource(_, _)
NearestSource(proto, path) ==
    IF ~AbsentInStream(NodeAt(proto, path)) THEN NameInStream(NodeAt(proto, path))
    ELSE IF path = <<>> THEN <<>>
    ELSE NearestSource(proto, SubSeq(path, 1, Len(path) - 1))

\* C23: an absent source is inherited.  In a parsed tree the source of every
\* node is the name of its nearest ancestor-or-self whose source name is
\* present in the stream, and the empty string when there is none.
SourceInherited ==
    phase \in {"parsed", "written"}
    => \A path \in TreePaths(main_proto[1]) :
          NodeAt(main_proto[1], path).source = NearestSource(main_proto[1], path)

\* a root without a name, a child with the name "@", and below it a
\* grandchild without a name, which has the child's name
SourceInheritedWitness ==
    /\ phase = "parsed"
    /\ AbsentInStream(main_proto[1]) /\ main_proto[1].source = <<>>
    /\ Len(main_proto[1].protos) >= 1
    /\ LET child == main_proto[1].protos[1]
       IN  /\ ~AbsentInStream(child) /\ child.source = <<64>>
           /\ Len(child.protos) = 1
           /\ AbsentInStream(child.protos[1]) /\ child.protos[1].source = <<64>>

-----------------------------------------------------------------------------
(* Properties of the sources and of the count byte that are written *)

SameNameInStream(a, b) ==
    /\ AbsentInStream(a) = AbsentInStream(b)
    /\ ~AbsentInStream(a) => NameInStream(a) = NameInStream(b)

\* C24: the source of a child is written as it was read.  In the file
\* written from a parsed tree, a child whose source name was absent has the
\* absent string, never the inherited text, and a child that had a name of
\* its own, the empty name with its terminator included, has that name.
ChildSourceReemitted ==
    (phase = "written" /\ calls = <<>> /\ parse(output).ok)
    => \A path \in TreePaths(main_proto[1]) \ {<<>>} :
          SameNameInStream(NodeAt(main_proto[1], path),
                           NodeAt(parse(output).val.main_proto, path))

\* C27: the count byte is written as it was read.  The byte written behind
\* the header is the upvalue count byte that parse read behind the header
\* of the file.
UpvalueCountByteKept ==
    phase = "written" => output[Len(_write_header) + 1] = upval_count

-----------------------------------------------------------------------------
(* Properties of the raw spans of a parsed prototype *)

\* a span is the bytes of a group: read from the span alone, the group ends
\* where the span ends and is the value the prototype holds
SpanIs(r, span, value) == r.ok /\ r.pos = Len(span) /\ r.val = value

SpansAgree(node) ==
    /\ SpanIs(read_code(node.ori.code, 0), node.ori.code, node.code)
    /\ SpanIs(read_constants(node.ori.constants, 0), node.ori.constants, node.constants)
    /\ SpanIs(read_upvalues(node.ori.upvalues, 0), node.ori.upvalues, node.upvalues)
    /\ SpanIs(read_protos(node.ori.protos, 0, node.source), node.ori.protos, node.protos)
    /\ SpanIs(read_counted(read_byte_with_raw, node.ori.lineinfo, 0),
              node.ori.lineinfo, node.lineinfo)
    /\ SpanIs(read_counted(read_absline, node.ori.abslineinfo, 0),
              node.ori.abslineinfo, node.abslineinfo)
    /\ SpanIs(read_counted(read_locvar, node.ori.locvars, 0),
              node.ori.locvars, node.locvars)
    /\ SpanIs(read_counted(read_string_with_raw, node.ori.upvalue_names, 0),
              node.ori.upvalue_names, node.upvalue_names)

\* C25: the raw spans are the bytes of their groups.  Right after parse,
\* each raw span of each prototype is the bytes its group was read from:
\* the size and the instructions for the code, and likewise the constants,
\* the upvalues, the children, the line info, the absolute line info, the
\* local variables and the upvalue names.
RawSpansAgree ==
    phase = "parsed"
    => \A path \in TreePaths(main_proto[1]) : SpansAgree(NodeAt(main_proto[1], path))

-----------------------------------------------------------------------------
(* read_string of luaparse51.py, luaparse52.py, luaparse53.py and          *)
(* luaparse.py, each called on its own                                      *)

\* struct.unpack('<I' or '<Q', ...) of the bytes of a size_t; a value from
\* ModelSizeLimit on is held as ModelSizeLimit, which is beyond the end of
\* every buffer as well
LittleEndian(bytes) ==
    IF \E i \in 4..Len(bytes) : bytes[i] # 0 THEN ModelSizeLimit
    ELSE bytes[1] + 256 * bytes[2] + 65536 * bytes[3]

\* read_size_t of Lua51Parser (sizet_size 4 or 8) and of luaparse53.py (8)
Lua5x_read_size_t(data, pos, sizet_size) ==
    AndThen(Lua5x_read(data, pos, sizet_size), LAMBDA raw :
        Ok(raw.pos, LittleEndian(raw.val), <<>>))

\* Lua51Parser.read_string: the bytes read with their last one dropped
Lua51Parser_read_string(data, pos, sizet_size) ==
    AndThen(Lua5x_read_size_t(data, pos, sizet_size), LAMBDA size :
        IF size.val = 0 THEN Ok(size.pos, <<>>, <<>>)
        ELSE AndThen(Lua5x_read(data, size.pos, size.val), LAMBDA read :
                Ok(read.pos, Utf8Decode(SubSeq(read.val, 1, Len(read.val) - 1)), <<>>)))

\* Lua52Parser._read_bytes and _read_size_t
Lua52Parser_read_bytes(data, pos, count) ==
    IF pos + count > Len(data) THEN Raise("ValueError: Unexpected end of data", pos)
    ELSE Ok(pos + count, Slice(data, pos, pos + count), <<>>)

Lua52Parser_read_size_t(data, pos, size_size_t) ==
    AndThen(Lua52Parser_read_bytes(data, pos, size_size_t), LAMBDA raw :
        Ok(raw.pos, LittleEndian(raw.val), <<>>))

\* Lua52Parser._read_string: the last byte is dropped when it is 0
Lua52Parser_read_string(data, pos, size_size_t) ==
    AndThen(Lua52Parser_read_size_t(data, pos, size_size_t), LAMBDA size :
        IF size.val = 0 THEN Ok(size.pos, <<>>, <<>>)
        ELSE AndThen(Lua52Parser_read_bytes(data, size.pos, size.val), LAMBDA string_data :
                Ok(string_data.pos,
                   Utf8OrLatin1(IF string_data.val[Len(string_data.val)] = 0
                                THEN SubSeq(string_data.val, 1, Len(string_data.val) - 1)
                                ELSE string_data.val),
                   <<>>)))

\* read_string of luaparse53.py: a size of one byte, or 0xFF and a size_t
Lua53_read_string(data, pos) ==
    AndThen(Lua5x_read(data, pos, 1), LAMBDA first :
    AndThen(IF first.val[1] = 255 THEN Lua5x_read_size_t(data, first.pos, 8)
            ELSE Ok(first.pos, first.val[1], <<>>), LAMBDA size :
        IF size.val = 0 THEN Ok(size.pos, <<>>, <<>>)
        ELSE AndThen(Lua5x_read(data, size.pos, size.val - 1), LAMBDA read :
                Ok(read.pos, Utf8Decode(read.val), <<>>))))

\* LuacParser.read_string of luaparse.py; None is held as the empty string
LuacParser_read_string(data, pos) ==
    AndThen(read_size_with_raw(data, pos), LAMBDA size :
        IF size.val = 0 THEN Ok(size.pos, <<>>, <<>>)
        ELSE LET read == FileRead(data, size.pos, size.val - 1)
             IN  Ok(size.pos + Len(read), Utf8Decode(read), <<>>))

ReadStringOf(format, data, sizet) ==
    CASE format = "Lua 5.1" -> Lua51Parser_read_string(data, 0, sizet)
      [] format = "Lua 5.2" -> Lua52Parser_read_string(data, 0, sizet)
      [] format = "Lua 5.3" -> Lua53_read_string(data, 0)
      [] format = "Lua 5.4" -> LuacParser_read_string(data, 0)

MaxStringLen == 3

StringBytes == {0, 97, 98}

\* the size n of a string as each format writes it: a size_t of 4 or of 8
\* bytes, a byte or 0xFF and a size_t of 8 bytes, a size in groups of 7 bits
SizeHeaders(format, n) ==
    CASE format \in {"Lua 5.1", "Lua 5.2"} ->
            { <<4, <<n, 0, 0, 0>> >>, <<8, <<n, 0, 0, 0, 0, 0, 0, 0>> >> }
      [] format = "Lua 5.3" -> { <<8, <<n>> >>, <<8, <<255, n, 0, 0, 0, 0, 0, 0, 0>> >> }
      [] format = "Lua 5.4" -> { <<8, Sz(n)>>, <<8, SzLong(n)>> }

InitString ==
    /\ LuacOff
    /\ cmp = NoCmp /\ disp = NoDisp /\ jit = NoJit /\ ins = NoIns
    /\ \E format \in {"Lua 5.1", "Lua 5.2", "Lua 5.3", "Lua 5.4"},
          n \in 0..MaxStringLen, payload \in SeqsUpTo(StringBytes, MaxStringLen) :
          \E h \in SizeHeaders(format, n) :
             fn = [pc |-> "new", op |-> "read_string", format |-> format,
                   sizet |-> h[1], n |-> n, header |-> h[2], payload |-> payload]

ReadString ==
    /\ fn.pc = "new" /\ fn.op = "read_string"
    /\ LET r == ReadStringOf(fn.format, fn.header \o fn.payload, fn.sizet)
       IN  fn' = [fn EXCEPT !.pc = "done"] @@ [result |-> r]
    /\ UNCHANGED << luacVars, cmp, disp, jit, ins >>

NextString == ReadString

SpecString == InitString /\ [][NextString]_vars

(* Properties of read_string *)

\* the bytes a format stores for a string of encoded length n: n bytes with
\* the terminator in Lua 5.1 and 5.2, n - 1 bytes in Lua 5.3 and 5.4
StoredBytes(format, n) == IF format \in {"Lua 5.1", "Lua 5.2"} THEN n ELSE n - 1

\* C26: a decoded string has no terminator.  A string of encoded length
\* n > 0 whose bytes are all in the buffer is decoded as its first n - 1
\* payload bytes, whatever its last byte is, and the cursor is left behind
\* the last byte the format stores for it.
StringWithoutTerminator ==
    (/\ fn.pc = "done" /\ fn.op = "read_string"
     /\ fn.n > 0 /\ Len(fn.payload) >= StoredBytes(fn.format, fn.n))
    => /\ fn.result.ok
       /\ fn.result.val = SubSeq(fn.payload, 1, fn.n - 1)
       /\ fn.result.pos = Len(fn.header) + StoredBytes(fn.format, fn.n)

-----------------------------------------------------------------------------
(* luaparse.py: parse and _write_luac_file, and then both once more by a   *)
(* second LuacParser on the file that was written                           *)

\* fn holds the pass and the bytes the first pass wrote
InitReencode ==
    /\ InitLuac(FullFiles, CutFiles)
    /\ cmp = NoCmp /\ disp = NoDisp /\ jit = NoJit /\ ins = NoIns
    /\ fn = [pc |-> "first", output |-> <<>>]

\* LuacParser(output): a new object on the file the first one wrote
ParseAgain ==
    /\ phase = "written" /\ fn.pc = "first"
    /\ fn' = [pc |-> "second", output |-> output]
    /\ file' = output
    /\ phase' = "new"
    /\ error' = ""
    /\ upval_count' = 0
    /\ main_proto' = None
    /\ encryption_key' = None
    /\ encrypt_mode' = FALSE
    /\ output' = <<>>
    /\ UNCHANGED << parsed_proto, calls, origin, cmp, disp, jit, ins >>

NextReencode == Parse \/ WriteLuacFile \/ ParseAgain

SpecReencode == InitReencode /\ [][NextReencode]_vars

(* Properties of a second pass *)

-----------------------------------------------------------------------------
(* Sequences of tree transforms *)

\* the orders in which n calls can be made
Orders(n) == { p \in [1..n -> 1..n] : \A i, j \in 1..n : i # j => p[i] # p[j] }

\* a tree with the payload of every node under each key of keys in turn
RECURSIVE PayloadsUnderKeys(_, _)
PayloadsUnderKeys(proto, keys) ==
    IF keys = <<>> THEN proto
    ELSE PayloadsUnderKeys(PayloadsUnderKey(proto, keys[1]), Tail(keys))

\* in every node of tree a, the instruction-stream span has the length and
\* the size prefix it has in the same node of tree b, and the decoded
\* instruction list is the one of b
RECURSIVE KeepsPrefixAndCode(_, _)
KeepsPrefixAndCode(a, b) ==
    /\ Len(a.ori.code) = Len(b.ori.code)
    /\ Slice(a.ori.code, 0, PrefixLen(b)) = Slice(b.ori.code, 0, PrefixLen(b))
    /\ a.code = b.code
    /\ Len(a.protos) = Len(b.protos)
    /\ \A i \in 1..Len(b.protos) : KeepsPrefixAndCode(a.protos[i], b.protos[i])

\* every call of the history ran under a non-empty key
AllCallsKeyed ==
    /\ Len(calls) > 0
    /\ \A i \in 1..Len(calls) : KeyUsable(calls[i].mode, calls[i].key)

-----------------------------------------------------------------------------
(* The word behind a decoded view *)

\* byte n, from 0, of (v << s), for v of at most 32 - s bits
ShiftedByte(v, s, n) ==
    IF 8 * n >= s THEN (v \div (2 ^ (8 * n - s))) % 256
    ELSE IF s - 8 * n >= 8 THEN 0
    ELSE (v % (2 ^ (8 - (s - 8 * n)))) * (2 ^ (s - 8 * n))

\* byte n of the word rebuilt from the opcode and the fields of the mode:
\*   iABC : opcode | A << 7 | k << 15 | B << 16 | C << 24
\*   iABx : opcode | A << 7 | Bx << 15       iAsBx : Bx = sBx + 65535
\*   iAx  : opcode | Ax << 7                 isJ   : Ax = sJ + 16777215
RebuiltByte(view, n) ==
    ShiftedByte(view.opcode, 0, n)
    + CASE view.mode = "iABC" ->
              ShiftedByte(view.A, 7, n) + ShiftedByte(view.k, 15, n)
              + ShiftedByte(view.B, 16, n) + ShiftedByte(view.C, 24, n)
        [] view.mode = "iABx" ->
              ShiftedByte(view.A, 7, n) + ShiftedByte(view.Bx, 15, n)
        [] view.mode = "iAsBx" ->
              ShiftedByte(view.A, 7, n) + ShiftedByte(view.sBx + 65535, 15, n)
        [] view.mode = "iAx" -> ShiftedByte(view.Ax, 7, n)
        [] view.mode = "isJ" -> ShiftedByte(view.sJ + 16777215, 7, n)

RebuiltWord(view) == [n \in 1..4 |-> RebuiltByte(view, n - 1)]

\* the range the bit width of a field gives it
FieldRange(field) ==
    CASE field \in {"A", "B", "C"} -> 0..255
      [] field = "k" -> 0..1
      [] field = "Bx" -> 0..131071
      [] field = "sBx" -> (0 - 65535)..65536
      [] field = "Ax" -> 0..33554431
      [] field = "sJ" -> (0 - 16777215)..16777216

\* C30: the decoded view is lossless.  For every 32-bit word whose opcode
\* is in the table, the word is rebuilt exactly from the opcode and the
\* fields of its addressing mode in the view (the biases of sBx and sJ
\* added again), and each field is within the range of its bit width.
DecodedViewLossless ==
    (/\ ins.pc = "done" /\ ins.format = "Lua 5.4"
     /\ Len(ins.data) = SIZEOF_INSTRUCTION
     /\ ins.data[1] % 128 < NUM_OPCODES)
    => /\ ins.result.ok
       /\ LET view == ins.result.val
          IN  /\ view.opcode \in 0..127
              /\ \A field \in ModeFields(view.mode) :
                     view[field] \in FieldRange(field)
              /\ RebuiltWord(view) = ins.data

\* words with the low bit of A, Ax or sJ set in the opcode's byte, rebuilt
\* from the views of the five modes: ADD, LOADK, LOADI, EXTRAARG, JMP
DecodedViewLosslessWitness ==
    /\ ins.pc = "done" /\ ins.format = "Lua 5.4" /\ ins.result.ok
    /\ ins.data[1] \in {162, 131, 129, 210, 184}
    /\ ins.data[2] = 193
    /\ "mode" \in DOMAIN ins.result.val
    /\ RebuiltWord(ins.result.val) = ins.data
    /\ ins.result.val.opcode = ins.data[1] - 128

=============================================================================
